---- MODULE Spec2Model ----
(***************************************************************************)
(* Model of backend/recipe_generator.py: the voice-driven conversation     *)
(* driver main(), its helpers (speak, generate_image, the label parsers,   *)
(* get_user_step_command) and the web helper process_ingredients_batch;   *)
(* the first stage of rohan.py's main; and, called on their own under      *)
(* ParserSpec, the label parsers and the JSON parsing steps of rohan.py,   *)
(* image_detection.py, health_report.py and Healthly_swap_engine.py.       *)
(* WebSpec is the web side: the route run_recipe of backend/routes.py,     *)
(* two requests interleaved at its await, and the route fridge_scan of     *)
(* image_detection.py.  FilesSpec is main() in BATCH_MODE with the step    *)
(* commands read from pre-supplied files; FairSpec is Spec run to its end. *)
(*                                                                         *)
(* Python strings are modelled as sequences of tokens.  A token is a word   *)
(* or one of the separators " ", "\n", ":", "-".  External collaborators    *)
(* (Gemini upload / generate_content, edge_tts, pygame, requests) are       *)
(* nondeterministic: each call either returns (with a reply drawn from a    *)
(* small set of texts) or raises.                                           *)
(***************************************************************************)
EXTENDS Integers, Sequences, FiniteSets, TLC

\* ------------------------------------------------------------------ bounds
\* Largest number of lines in a step-list reply of the model.
MaxStepLines == 2
\* Largest number of REPEAT commands accepted in one run of the step loop.
MaxRepeats == 2
\* Largest number of lines in a text handed to a label parser called on its own.
MaxLines == 3
\* The model calls of one kind are counted up to this number, which no run
\* with at most MaxRepeats REPEAT commands reaches.
MaxCalls == MaxStepLines + MaxRepeats + 1
\* Largest number of bytes in an audio upload sent to run_recipe.
MaxUpload == 2
\* Largest number of files in a request to fridge_scan, the requests that
\* reach MAX_IMAGES apart.
MaxFiles == 2

\* ------------------------------------------------------- string primitives
SP == " "
NL == "\n"
COLON == ":"
DASH == "-"

\* str.strip() removes leading and trailing whitespace, newlines included.
IsSpace(t) == t \in {SP, NL}

RECURSIVE LStrip(_)
LStrip(s) == IF s = <<>> THEN <<>>
             ELSE IF IsSpace(Head(s)) THEN LStrip(Tail(s)) ELSE s

RECURSIVE RStrip(_)
RStrip(s) == IF s = <<>> THEN <<>>
             ELSE IF IsSpace(s[Len(s)]) THEN RStrip(SubSeq(s, 1, Len(s) - 1)) ELSE s

Strip(s) == RStrip(LStrip(s))

\* Index of the first occurrence of token t in s, 0 when there is none.
RECURSIVE FindFrom(_, _, _)
FindFrom(s, t, i) == IF i > Len(s) THEN 0
                     ELSE IF s[i] = t THEN i ELSE FindFrom(s, t, i + 1)

Find(s, t) == FindFrom(s, t, 1)

\* Index of the last occurrence of token t in s[1..i], 0 when there is none.
RECURSIVE FindBack(_, _, _)
FindBack(s, t, i) == IF i < 1 THEN 0
                     ELSE IF s[i] = t THEN i ELSE FindBack(s, t, i - 1)

\* str.rsplit(sep, 1): the split made at the last separator.
SplitAtLast(s, sep) ==
    LET i == FindBack(s, sep, Len(s))
    IN  IF i = 0 THEN <<s>>
        ELSE <<SubSeq(s, 1, i - 1), SubSeq(s, i + 1, Len(s))>>

\* str.split(sep, 1): one part when sep does not occur, else two parts.
SplitOnce(s, sep) ==
    LET i == Find(s, sep)
    IN  IF i = 0 THEN <<s>>
        ELSE <<SubSeq(s, 1, i - 1), SubSeq(s, i + 1, Len(s))>>

\* str.split("\n"): the lines of s, always at least one.
RECURSIVE SplitLines(_)
SplitLines(s) ==
    LET i == Find(s, NL)
    IN  IF i = 0 THEN <<s>>
        ELSE <<SubSeq(s, 1, i - 1)>> \o SplitLines(SubSeq(s, i + 1, Len(s)))

\* str.lower() and str.upper() on one token.
LowerTok(t) ==
    CASE t \in {"STEP", "Step"} -> "step"
      [] t = "HI" -> "hi"
      [] t = "TE" -> "te"
      [] t = "XX" -> "xx"
      [] t = "NEXT" -> "next"
      [] t = "REPEAT" -> "repeat"
      [] t = "STOP" -> "stop"
      [] t = "LANG" -> "lang"
      [] t = "OPTIONS" -> "options"
      [] t = "PNG" -> "png"
      [] t = "JPG" -> "jpg"
      [] OTHER -> t

UpperTok(t) ==
    CASE t \in {"repeat", "Repeat"} -> "REPEAT"
      [] t \in {"stop", "Stop"} -> "STOP"
      [] t \in {"next", "Next"} -> "NEXT"
      [] t = "repeating" -> "REPEATING"
      [] t = "nonstop" -> "NONSTOP"
      [] t = "please" -> "PLEASE"
      [] t = "ok" -> "OK"
      [] OTHER -> t

\* A lower() that leaves the case of its text as it is.
LowerKeepsCase(s) == s

Lower(s) == [i \in 1..Len(s) |-> LowerTok(s[i])]
Upper(s) == [i \in 1..Len(s) |-> UpperTok(s[i])]

\* word in s (substring test) for an upper-case word: a token holds the word
\* when it is the word or a longer token with the word inside it.
TokHolds(t, word) ==
    \/ t = word
    \/ word = "REPEAT" /\ t = "REPEATING"
    \/ word = "STOP" /\ t = "NONSTOP"

Contains(s, word) == \E i \in 1..Len(s) : TokHolds(s[i], word)

\* "LABEL:" in line: the label immediately followed by a colon, anywhere.
HasLabel(line, label) ==
    \E i \in 1..(Len(line) - 1) : line[i] = label /\ line[i + 1] = COLON

\* line.startswith("LABEL:")
StartsWithLabel(line, label) ==
    Len(line) >= 2 /\ line[1] = label /\ line[2] = COLON

\* lower.startswith("step")
StartsWithStep(line) ==
    Len(line) >= 1 /\ LowerTok(line[1]) \in {"step", "steps"}

\* Lines joined by newlines.
RECURSIVE JoinLines(_)
JoinLines(ls) == IF ls = <<>> THEN <<>>
                 ELSE IF Len(ls) = 1 THEN ls[1]
                 ELSE ls[1] \o <<NL>> \o JoinLines(Tail(ls))

\* --------------------------------------------------------------- VOICE_MAP
DefaultVoice == "en-IN-NeerjaNeural"

VOICE_MAP ==
    (<<"hi">> :> "hi-IN-SwaraNeural") @@
    (<<"te">> :> "te-IN-MohanNeural") @@
    (<<"ta">> :> "ta-IN-PallaviNeural") @@
    (<<"kn">> :> "kn-IN-GaganNeural") @@
    (<<"bn">> :> "bn-IN-TanishaaNeural") @@
    (<<"ml">> :> "ml-IN-SobhanaNeural") @@
    (<<"en">> :> "en-IN-NeerjaNeural")

\* Indexing the table directly: a code that is no key has no voice (KeyError).
VoiceByIndex(code) ==
    IF code \in DOMAIN VOICE_MAP THEN VOICE_MAP[code] ELSE "KeyError"

\* VOICE_MAP.get(lang_code, "en-IN-NeerjaNeural")
VoiceFor(code) ==
    IF code \in DOMAIN VOICE_MAP THEN VOICE_MAP[code] ELSE DefaultVoice

\* ----------------------------------------------------------------- parsers
\* parse_lang_and_options: the last LANG: line and the last OPTIONS: line win.
RECURSIVE ScanLangOptions(_, _, _)
ScanLangOptions(lines, lang, question) ==
    IF lines = <<>> THEN <<lang, question>>
    ELSE LET line == Head(lines)
             l2 == IF HasLabel(line, "LANG")
                   THEN Lower(Strip(SplitOnce(line, COLON)[2])) ELSE lang
             q2 == IF HasLabel(line, "OPTIONS")
                   THEN Strip(SplitOnce(line, COLON)[2]) ELSE question
         IN  ScanLangOptions(Tail(lines), l2, q2)

\* A parser that reads the first line only.
ParseLangFirstLine(response_text) ==
    ScanLangOptions(<<Head(SplitLines(response_text))>>, <<"en">>, response_text)

parse_lang_and_options(response_text) ==
    ScanLangOptions(SplitLines(response_text), <<"en">>, response_text)

\* Defaults that are all the empty string.
DishDefaultsEmpty ==
    [dish_name |-> <<>>, ingredients_text |-> <<>>, question_text |-> <<>>,
     base_recipe_text |-> <<>>, image_prompt |-> <<>>]

\* parse_dish_block: one label per stripped line, first matching branch.
DishDefaults ==
    [dish_name |-> <<>>, ingredients_text |-> <<>>, question_text |-> <<>>,
     base_recipe_text |-> <<>>, image_prompt |-> <<"Indian", SP, "food">>]

RECURSIVE ScanDish(_, _)
ScanDish(lines, acc) ==
    IF lines = <<>> THEN acc
    ELSE LET line == Strip(Head(lines))
             val == Strip(SplitOnce(line, COLON)[2])
             a2 == IF StartsWithLabel(line, "DISH")
                       THEN [acc EXCEPT !.dish_name = val]
                   ELSE IF StartsWithLabel(line, "INGREDIENTS")
                       THEN [acc EXCEPT !.ingredients_text = val]
                   ELSE IF StartsWithLabel(line, "QUESTION")
                       THEN [acc EXCEPT !.question_text = val]
                   ELSE IF StartsWithLabel(line, "RECIPE")
                       THEN [acc EXCEPT !.base_recipe_text = val]
                   ELSE IF StartsWithLabel(line, "IMG")
                       THEN [acc EXCEPT !.image_prompt = val]
                   ELSE acc
         IN  ScanDish(Tail(lines), a2)

parse_dish_block(final_text) == ScanDish(SplitLines(final_text), DishDefaults)

\* parse_steps: one entry per non-blank line that starts with "step" and has a
\* colon, or failing that a dash.
RECURSIVE ScanSteps(_)
ScanSteps(lines) ==
    IF lines = <<>> THEN <<>>
    ELSE LET line == Strip(Head(lines))
             byColon == SplitOnce(line, COLON)
             byDash == SplitOnce(line, DASH)
             here == IF line = <<>> THEN <<>>
                     ELSE IF ~StartsWithStep(line) THEN <<>>
                     ELSE IF Len(byColon) = 2 THEN <<Strip(byColon[2])>>
                     ELSE IF Len(byDash) = 2 THEN <<Strip(byDash[2])>>
                     ELSE <<>>
         IN  here \o ScanSteps(Tail(lines))

parse_steps(steps_text) == ScanSteps(SplitLines(steps_text))


\* ------------------------------------------------------------ JSON texts
\* Further tokens of a model reply: braces, comma, double quote and the
\* markdown fence.
LB == "{"
RB == "}"
COMMA == ","
DQ == "\""
FENCE == "'''"       \* stands for three backquotes

\* Python values: None, a str, a dict (its items in insertion order).
None == <<"None", <<>> >>
Str(toks) == <<"str", toks>>
Obj(items) == <<"dict", items>>

\* How a call ends: it returns a value or raises an exception.
Returns(v) == [outcome |-> "return", value |-> v]
Raises(e) == [outcome |-> "raise", value |-> <<"exception", <<e>> >>]

\* str.split(sep): the parts of s between the separators, at least one.
RECURSIVE Split(_, _)
Split(s, sep) ==
    LET i == Find(s, sep)
    IN  IF i = 0 THEN <<s>>
        ELSE <<SubSeq(s, 1, i - 1)>> \o Split(SubSeq(s, i + 1, Len(s)), sep)

\* json.loads: whitespace is skipped between the tokens of a value.
RECURSIVE SkipWs(_, _)
SkipWs(s, i) == IF i <= Len(s) /\ IsSpace(s[i]) THEN SkipWs(s, i + 1) ELSE i

Undecodable == [ok |-> FALSE, value |-> None, next |-> 0]
Decoded(v, n) == [ok |-> TRUE, value |-> v, next |-> n]

\* d[k] = v: a key already present keeps its place and takes the new value.
Put(items, k, v) ==
    IF \E i \in 1..Len(items) : items[i][1] = k
    THEN [i \in 1..Len(items) |-> IF items[i][1] = k THEN <<k, v>> ELSE items[i]]
    ELSE Append(items, <<k, v>>)

\* A string starts at the quote s[i] and ends at the next quote.
ScanString(s, i) ==
    LET j == FindFrom(s, DQ, i + 1)
    IN  IF j = 0 THEN Undecodable ELSE Decoded(Str(SubSeq(s, i + 1, j - 1)), j + 1)

RECURSIVE ScanValue(_, _)
RECURSIVE ScanMembers(_, _, _)
\* The members of an object from position i on, up to its closing brace.
ScanMembers(s, i, items) ==
    LET k == SkipWs(s, i)
    IN  IF k > Len(s) \/ s[k] # DQ THEN Undecodable
        ELSE LET key == ScanString(s, k)
             IN  IF ~key.ok THEN Undecodable
                 ELSE LET c == SkipWs(s, key.next)
                      IN  IF c > Len(s) \/ s[c] # COLON THEN Undecodable
                          ELSE LET val == ScanValue(s, c + 1)
                               IN  IF ~val.ok THEN Undecodable
                                   ELSE LET e == SkipWs(s, val.next)
                                            more == Put(items, key.value[2], val.value)
                                        IN  IF e > Len(s) THEN Undecodable
                                            ELSE IF s[e] = COMMA
                                                THEN ScanMembers(s, e + 1, more)
                                            ELSE IF s[e] = RB
                                                THEN Decoded(Obj(more), e + 1)
                                            ELSE Undecodable

\* A value from position i on: a string or an object.
ScanValue(s, i) ==
    LET k == SkipWs(s, i)
    IN  IF k > Len(s) THEN Undecodable
        ELSE IF s[k] = DQ THEN ScanString(s, k)
        ELSE IF s[k] = LB
            THEN LET m == SkipWs(s, k + 1)
                 IN  IF m <= Len(s) /\ s[m] = RB THEN Decoded(Obj(<<>>), m + 1)
                     ELSE ScanMembers(s, k + 1, <<>>)
        ELSE Undecodable

\* json.loads(s): one value and nothing but whitespace after it; .ok is
\* FALSE where json.loads raises JSONDecodeError.
json_loads(s) ==
    LET r == ScanValue(s, 1)
    IN  IF r.ok /\ SkipWs(s, r.next) > Len(s) THEN r ELSE Undecodable

\* re.sub(r"```json", "", text)
RECURSIVE RemoveFenceJson(_)
RemoveFenceJson(s) ==
    IF s = <<>> THEN <<>>
    ELSE IF Len(s) >= 2 /\ s[1] = FENCE /\ s[2] = "json"
        THEN RemoveFenceJson(SubSeq(s, 3, Len(s)))
    ELSE <<s[1]>> \o RemoveFenceJson(Tail(s))

\* re.sub(r"```", "", text)
IsNotFence(t) == t # FENCE
RemoveFence(s) == SelectSeq(s, IsNotFence)

\* An except clause that lets the decoding error out.
ExtractJsonReraises == Raises("JSONDecodeError")

\* rohan.py lines 32-34: every exception inside extract_json yields None.
ExtractJsonExcept == Returns(None)

\* rohan.extract_json: fences removed, then the text from the first "{" to
\* the last "}" decoded; with no "}" the slice is empty and decoding fails.
extract_json(text) ==
    LET t == RemoveFence(RemoveFenceJson(text))
        start == Find(t, LB)
        end == FindBack(t, RB, Len(t))
    IN  IF start # 0
        THEN LET r == json_loads(SubSeq(t, start, end))
             IN  IF r.ok THEN Returns(r.value) ELSE ExtractJsonExcept
        ELSE Returns(None)

\* image_detection.py lines 150-171: direct decoding, then the text from the
\* first "{" to the last "}", then RuntimeError.
detect_ingredients_parse(raw_text) ==
    IF raw_text = <<>> THEN Raises("RuntimeError")
    ELSE LET r == json_loads(raw_text)
             start == Find(raw_text, LB)
             end == FindBack(raw_text, RB, Len(raw_text))
         IN  IF r.ok THEN Returns(r.value)
             ELSE IF start # 0 /\ end # 0 /\ end > start
                     /\ json_loads(SubSeq(raw_text, start, end)).ok
                 THEN Returns(json_loads(SubSeq(raw_text, start, end)).value)
             ELSE Raises("RuntimeError")

\* health_report.py _clean_json_response: the text between the first two
\* fences when the stripped text starts with a fence and has two of them,
\* less a leading "json".
clean_json_response(raw_text) ==
    LET t == Strip(raw_text)
        parts == Split(t, FENCE)
    IN  IF t # <<>> /\ t[1] = FENCE /\ Len(parts) >= 3
        THEN LET inner == parts[2]
             IN  IF inner # <<>> /\ inner[1] = "json"
                 THEN Strip(Strip(Tail(inner)))
                 ELSE Strip(inner)
        ELSE t

DISCLAIMER == "**Disclaimer:**"

\* health_report.py _parse_text_to_json on a text with no bullet line ("* "):
\* the three tables stay empty, the explanation is fixed and the disclaimer is
\* the text after the Disclaimer heading, or the stock sentence.
parse_text_to_json(raw_text) ==
    LET i == Find(raw_text, DISCLAIMER)
        disclaimer == IF i # 0 THEN Strip(SubSeq(raw_text, i + 1, Len(raw_text)))
                      ELSE <<"This is not medical advice.">>
    IN  Obj(<< << <<"extracted_values">>, Obj(<<>>) >>,
               << <<"abnormalities">>, Obj(<<>>) >>,
               << <<"explanation">>, Str(<<"The blood report shows several values">>) >>,
               << <<"diet_plan_1_week">>, Obj(<<>>) >>,
               << <<"disclaimer">>, Str(disclaimer) >> >>)

\* health_report.py lines 316-342: the cleaned text decoded, else the text
\* parsed; the final raise is reached only when the text parser raises.
analyze_parse(raw_text) ==
    LET r == json_loads(clean_json_response(raw_text))
    IN  IF r.ok THEN Returns(r.value) ELSE Returns(parse_text_to_json(raw_text))

\* Healthly_swap_engine.py lines 58-63: the structure returned for a text
\* that does not decode.
SwapFallback ==
    Obj(<< << <<"why_unhealthy">>, Str(<<"Sorry, could not parse model output.">>) >>,
           << <<"healthy_indian_swap">>, Str(<<>>) >>,
           << <<"nutritional_comparison">>, Str(<<>>) >>,
           << <<"why_it_wins">>, Str(<<>>) >> >>)

\* Healthly_swap_engine.py lines 54-65.
healthy_swap_decode(output_text) ==
    LET r == json_loads(output_text)
    IN  IF r.ok THEN Returns(r.value) ELSE Returns(SwapFallback)

\* Valid JSON objects a model may reply with.
JsonObjects ==
    { <<LB, DQ, "lang", DQ, COLON, SP, DQ, "hi", DQ, COMMA, SP, DQ, "question", DQ, COLON,
        SP, DQ, "Paneer", SP, "or", SP, "Dal?", DQ, RB>>,
      <<LB, RB>>,
      <<LB, DQ, "a", DQ, COLON, SP, LB, DQ, "b", DQ, COLON, SP, DQ, "x", DQ, RB, RB>>,
      <<LB, DQ, "note", DQ, COLON, SP, DQ, "use", SP, FENCE, SP, "fences", DQ, RB>>,
      <<LB, DQ, "q", DQ, COLON, SP, DQ, RB, LB, DQ, RB>>,
      <<LB, DQ, "a", DQ, COLON, DQ, "x", DQ, COMMA, DQ, "a", DQ, COLON, DQ, "y", DQ, RB>> }

\* Replies that are no JSON.
NonJsonTexts ==
    { <<"sorry">>,
      <<LB, DQ, "lang", DQ, COLON, SP, DQ, "hi", DQ>>,
      <<RB, SP, LB>>,
      <<LB, DQ, "a", DQ, SP, DQ, "x", DQ, RB>>,
      <<"eat", SP, "well", NL, DISCLAIMER, SP, "ask", SP, "a", SP, "doctor", NL>>,
      <<>> }

\* A reply body alone, inside ```json or ``` fences, between whitespace, or
\* inside a sentence.
Wrappings(body) ==
    { body,
      <<FENCE, "json", NL>> \o body \o <<NL, FENCE>>,
      <<FENCE, NL>> \o body \o <<NL, FENCE, NL>>,
      <<SP>> \o body \o <<NL>>,
      <<"Sure", COLON, SP>> \o body \o <<SP, "enjoy">> }

RawTexts == UNION {Wrappings(body) : body \in JsonObjects \cup NonJsonTexts}

\* ------------------------------------------------- replies of the model
\* A reply of generate_content: its .text is a string ("text") or None
\* ("none"); a .text that raises when read is a separate outcome of the call.
Text(s) == [kind |-> "text", text |-> s]
NoneReply == [kind |-> "none", text |-> <<>>]

\* Replies to prompt_1 (language and two dish options).
DetectTexts ==
    { <<"LANG", COLON, SP, "hi", NL, "OPTIONS", COLON, SP, "Paneer", SP, "or", SP, "Dal?">>,
      <<"OPTIONS", COLON, SP, "Paneer", SP, "or", SP, "Dal?", NL, "LANG", COLON, SP, "XX", SP>>,
      <<"LANG", COLON, NL, "OPTIONS", COLON>>,
      <<"Paneer", SP, "or", SP, "Dal?">> }

\* Replies to prompt_2 (the dish block).
DishTexts ==
    { <<"DISH", COLON, SP, "Dal", NL, "INGREDIENTS", COLON, SP, "lentils", NL,
        "QUESTION", COLON, SP, "all?", NL, "RECIPE", COLON, SP, "boil", NL,
        "IMG", COLON, SP, "dal">>,
      <<"sorry">> }

\* Replies to prompt_3 (the final recipe) and to the intro prompt.
RecipeTexts == { <<"boil", SP, "then", SP, "serve">>, <<>> }
IntroTexts == { <<"step", SP, "by", SP, "step", NL>> }

\* Lines of a step-list reply, and the replies of at most MaxStepLines lines.
StepLines ==
    { <<"STEP", SP, "1", COLON, SP, "Chop", SP, "onions">>,
      <<SP, "Step", SP, "2", SP, DASH, SP, "Boil", SP, "water">>,
      <<"step", SP, "3", SP, "serve">>,
      <<"Enjoy!">>,
      <<SP>> }

RECURSIVE SeqsUpTo(_, _)
SeqsUpTo(S, n) ==
    IF n = 0 THEN {<<>>}
    ELSE LET shorter == SeqsUpTo(S, n - 1)
         IN  shorter \cup {Append(q, x) : q \in shorter, x \in S}

StepTexts == {JoinLines(ls) : ls \in SeqsUpTo(StepLines, MaxStepLines)}

\* Replies of the step-command classifier.
CommandTexts ==
    { <<"NEXT">>, <<"repeat", SP, "please">>, <<"Stop">>, <<"REPEAT", SP, "STOP">>,
      <<"NEXT", SP, "STOP">>, <<"repeating">>, <<"ok">>, <<>> }

Commands == {"NEXT", "REPEAT", "STOP"}

\* ------------------------------------------------------------------ state
VARIABLES
    entry,              \* which function runs: "main", "process_ingredients_batch", ...
    BATCH_MODE,         \* the BATCH_MODE environment toggle, fixed per run
    pc,                 \* position in the running function
    lang_code,          \* main: language code parsed from the first reply
    ai_question,        \* main: question parsed from the first reply
    dish,               \* main: the five fields returned by parse_dish_block
    final_recipe_text,  \* main: the adjusted recipe
    intro_text,         \* main: the sentence introducing the step loop
    steps,              \* main: list returned by parse_steps
    step_index,         \* main: index of the current step
    current_step,       \* main: the step read at the top of the loop body
    command,            \* main: the command of the latest loop iteration
    voice,              \* voice selected by the latest synthesis call
    last,               \* what the latest step did (call, outcome, output, devices)
    calls,              \* number of model calls issued, per call kind
    failed,             \* model calls that raised
    iter,               \* per loop iteration: steps spoken, commands asked, classifier calls
    spoken,             \* index and text of the step spoken most recently
    repeats,            \* REPEAT commands obtained so far
    wav_exists,         \* process_ingredients_batch: the input file is on disk
    result,             \* process_ingredients_batch: the result dict
    arg,                \* a parser called on its own: the text it is given
    ret,                \* a parser called on its own: the value it returned
    request,            \* a web handler: what the client sent
    disk,               \* files the run finds, writes or leaves behind
    response            \* a web handler: what it answered

vars == <<entry, BATCH_MODE, pc, lang_code, ai_question, dish, final_recipe_text,
          intro_text, steps, step_index, current_step, command, voice, last, calls, failed, iter, spoken, repeats, wav_exists, result, arg, ret,
          request, disk, response>>

mainData == <<lang_code, ai_question, dish, final_recipe_text, intro_text, steps,
              step_index, current_step, command>>
loopHist == <<iter, spoken, repeats>>
batchData == <<wav_exists, result>>
callData == <<arg, ret>>
webData == <<request, disk, response>>
fixed == <<entry, BATCH_MODE>>

ModelCalls == {"detect", "choose", "adjust", "split", "intro", "classify"}

\* One step's observable effect: the external call made, how it ended
\* ("ok", "caught": raised and handled, "raised": propagated, "skipped"),
\* the message printed, the devices touched, the files left on disk and the
\* text printed with the message (raw).
Ev(call, outcome, msg, dev, left) ==
    [call |-> call, outcome |-> outcome, msg |-> msg, dev |-> dev, left |-> left,
     raw |-> <<>>, exc |-> "none"]

\* The same step, with the text it printed after its message.
Printed(ev, text) == [ev EXCEPT !.raw = text]

\* The same step, ended by an exception of class exc.
Raising(ev, exc) == [ev EXCEPT !.exc = exc]

\* Classes of the exception raised by model.generate_content: the quota
\* error of google.api_core, or any other exception.
Exceptions == {"ResourceExhausted", "Exception"}

NoEv == Ev("none", "ok", "", {}, {})

NewIter == [spoken |-> 0, asked |-> 0, classified |-> 0]

ResultInit ==
    [success |-> FALSE, error |-> "None", response_text |-> <<>>,
     lang_code |-> <<"en">>, ai_question |-> <<>>, tts_files |-> <<>>,
     tts_error |-> FALSE]

\* The locals of every function before its first statement.
Locals0 ==
    /\ pc = "start"
    /\ lang_code = <<>>
    /\ ai_question = <<>>
    /\ dish = DishDefaults
    /\ final_recipe_text = <<>>
    /\ intro_text = <<>>
    /\ steps = <<>>
    /\ step_index = 0
    /\ current_step = <<>>
    /\ command = "none"
    /\ voice = "none"
    /\ last = NoEv
    /\ calls = [k \in ModelCalls |-> 0]
    /\ failed = {}
    /\ iter = NewIter
    /\ spoken = [index |-> -1, text |-> <<>>]
    /\ repeats = 0
    /\ result = ResultInit
    /\ ret = <<>>

\* A run started from the command line: no web request, and no file on disk
\* that the model follows.
Offline ==
    /\ request = <<>>
    /\ disk = <<>>
    /\ response = <<>>

Init ==
    /\ entry \in {"main", "process_ingredients_batch", "rohan_main"}
    /\ BATCH_MODE \in (IF entry = "rohan_main" THEN {FALSE} ELSE BOOLEAN)
    /\ wav_exists \in (IF entry = "process_ingredients_batch" THEN BOOLEAN ELSE {TRUE})
    /\ arg = <<>>
    /\ Offline
    /\ Locals0


\* ------------------------------------------------------------------ speak
\* A record_audio without its BATCH_MODE return.
RecordDevicesAlways == {"input", "mic"}

\* Devices touched before a recording: input() and the microphone, in
\* interactive mode only (record_audio returns at once in BATCH_MODE and
\* catches its own microphone errors).
RecordDevices == IF BATCH_MODE THEN {} ELSE {"input", "mic"}

\* A speak without its guard on the text.
NotTextNever(text) == FALSE

\* Line 89: `not text` holds of the empty string.
NotText(text) == text = <<>>

\* speak(text, lang_code), continuing at `next` when it returns.
speak(text, next) ==
    \/ /\ NotText(text)                                 \* if not text: return
       /\ last' = Ev("speak", "skipped", "", {}, {})
       /\ pc' = next
       /\ UNCHANGED voice
    \/ /\ ~NotText(text)
       /\ BATCH_MODE
       /\ voice' = VoiceFor(lang_code)
       /\ pc' = next
       /\ \/ last' = Ev("speak", "ok", "TTS_FILE", {}, {"tts_uuid.mp3"})
          \/ last' = Ev("speak", "caught", "[TTS ERROR]", {}, {})
    \/ /\ ~NotText(text)
       /\ ~BATCH_MODE
       /\ voice' = VoiceFor(lang_code)
       /\ \/ /\ last' = Ev("speak", "raised", "AI Speaking", {}, {})   \* save raises
             /\ pc' = "raised"
          \/ /\ last' = Ev("speak", "ok", "AI Speaking", {"speaker"}, {})
             /\ pc' = next
          \/ /\ last' = Ev("speak", "caught", "Audio Playback Error", {"speaker"},
                           {"ai_response.mp3"})
             /\ pc' = next

\* --------------------------------------------------------------- main
Running(e, p) == entry = e /\ pc = p

\* An except clause that issues the failed call again instead of returning.
RetryAfterFailure(k) == k

\* Lines 321, 378, 458, 492: the except clause of model call k returns.
AfterFailure(k) == "done"

\* One more model call of kind k; the count stops at MaxCalls.
Issue(k) == calls' = [calls EXCEPT ![k] = IF @ < MaxCalls THEN @ + 1 ELSE @]

\* Lines 291-303: record (interactive) and upload the ingredients audio.
UploadIngredients ==
    /\ Running("main", "start")
    /\ \/ /\ last' = Ev("upload_ingredients", "ok", "", RecordDevices, {})
          /\ pc' = "detect"
       \/ /\ last' = Ev("upload_ingredients", "caught",
                        "[ERROR] Upload ingredients file failed", RecordDevices, {})
          /\ pc' = "done"
    /\ UNCHANGED <<fixed, mainData, voice, calls, failed, loopHist, batchData, callData, webData>>

\* Line 316: the message of main's quota clause.
QuotaMessage == "[ERROR] Gemini free-tier quota"

\* Line 315: the only except clause around main's detection call.
MainCatches(exc) == exc = "ResourceExhausted"

\* Lines 313-328: the language-detection call and parse_lang_and_options.
DetectLanguage ==
    /\ Running("main", "detect")
    /\ Issue("detect")
    /\ \/ \E exc \in Exceptions :
            /\ IF MainCatches(exc)
               THEN /\ last' = Raising(Ev("detect", "caught", QuotaMessage, {}, {}), exc)
                    /\ pc' = AfterFailure("detect")
               ELSE /\ last' = Raising(Ev("detect", "raised", "", {}, {}), exc)
                    /\ pc' = "raised"
            /\ failed' = failed \cup {"detect"}
            /\ UNCHANGED <<lang_code, ai_question>>
       \/ /\ last' = Ev("detect", "raised", "", {}, {})    \* result_1.text.strip()
          /\ pc' = "raised"
          /\ UNCHANGED <<lang_code, ai_question, failed>>
       \/ \E t \in DetectTexts :
            LET parsed == parse_lang_and_options(Strip(t))
            IN  /\ lang_code' = parsed[1]
                /\ ai_question' = parsed[2]
                /\ last' = Printed(Ev("detect", "ok", "Gemini Response 1", {}, {}),
                                   Strip(t))
                /\ pc' = "speak_question"
                /\ UNCHANGED failed
    /\ UNCHANGED <<fixed, dish, final_recipe_text, intro_text, steps, step_index,
                   current_step, command, voice,
                   loopHist, batchData, callData, webData>>

\* Line 331.
SpeakQuestion ==
    /\ Running("main", "speak_question")
    /\ speak(ai_question, "upload_choice")
    /\ UNCHANGED <<fixed, mainData, calls, failed, loopHist, batchData, callData, webData>>

\* Lines 334-345: record and upload the dish choice; a failure is tolerated.
UploadChoice ==
    /\ Running("main", "upload_choice")
    /\ \/ last' = Ev("upload_choice", "ok", "", RecordDevices, {})
       \/ last' = Ev("upload_choice", "caught", "[ERROR] Upload choice file failed",
                        RecordDevices, {})
    /\ pc' = "choose"
    /\ UNCHANGED <<fixed, lang_code, ai_question, dish, final_recipe_text, intro_text,
                   steps, step_index, current_step, command,
                   voice,
                   calls, failed, loopHist, batchData, callData, webData>>

\* A driver that takes the choice audio for uploaded whatever the upload did.
ChoiceUploadAssumed == TRUE

\* Line 367, "if choice_upload": the upload just before returned a file.
choice_upload == last.call = "upload_choice" /\ last.outcome = "ok"

\* Line 447, "if ingredients_reply_upload".
ingredients_reply_upload == last.call = "upload_reply" /\ last.outcome = "ok"

\* Lines 366-386: the dish-choice call (with or without the audio) and
\* parse_dish_block; result_2.text is read outside the try.
ChooseDish ==
    /\ Running("main", "choose")
    /\ Issue("choose")
    /\ LET prompt == IF choice_upload THEN <<"prompt_2">> ELSE <<"fallback_prompt">>
       IN  \/ /\ last' = Printed(Ev("choose", "caught",
                                    "[ERROR] Gemini generation for choice failed", {}, {}),
                                 prompt)
              /\ failed' = failed \cup {"choose"}
              /\ pc' = AfterFailure("choose")
              /\ UNCHANGED dish
           \/ /\ last' = Printed(Ev("choose", "raised", "", {}, {}), prompt)
              /\ pc' = "raised"                             \* result_2.text.strip()
              /\ UNCHANGED <<dish, failed>>
           \/ \E t \in DishTexts :
                /\ dish' = parse_dish_block(Strip(t))
                /\ last' = Printed(Ev("choose", "ok", "Gemini Response 2", {}, {}), prompt)
                /\ pc' = "image"
                /\ UNCHANGED failed
    /\ UNCHANGED <<fixed, lang_code, ai_question, final_recipe_text, intro_text, steps,
                   step_index, current_step, command, voice, loopHist, batchData, callData, webData>>

\* generate_image (lines 126-161): every failure is caught inside it.  The
\* reply is streamed (line 137), so a network error can also come while the
\* body is read (line 143), after line 142 has created the file.
generate_image ==
    \/ last' = Ev("image", "caught", "[Pollinations ERROR]", {}, {})
    \/ last' = Ev("image", "caught", "[Pollinations ERROR]", {}, {"final_dish.jpg"})
    \/ last' = Ev("image", "failed", "[Pollinations] Failed with status", {}, {})
    \/ last' = Ev("image", "ok", "[Pollinations] Image saved",
                  IF BATCH_MODE THEN {} ELSE {"viewer"}, {"final_dish.jpg"})
    \/ /\ ~BATCH_MODE
       /\ last' = Ev("image", "ok", "[Pollinations] Could not auto-open image",
                     {"viewer"}, {"final_dish.jpg"})

\* Line 389.
GenerateImage ==
    /\ Running("main", "image")
    /\ generate_image
    /\ pc' = "speak_ingredients"
    /\ UNCHANGED <<fixed, mainData, voice, calls, failed, loopHist, batchData, callData, webData>>

\* Lines 392-393.
SpeakIngredients ==
    /\ Running("main", "speak_ingredients")
    /\ speak(dish.dish_name \o <<".", SP>> \o dish.ingredients_text \o <<".", SP>>
             \o dish.question_text, "upload_reply")
    /\ UNCHANGED <<fixed, mainData, calls, failed, loopHist, batchData, callData, webData>>

\* Lines 395-409: record and upload the availability reply; a failure is tolerated.
UploadReply ==
    /\ Running("main", "upload_reply")
    /\ \/ last' = Ev("upload_reply", "ok", "", RecordDevices, {})
       \/ last' = Ev("upload_reply", "caught",
                        "[ERROR] Upload ingredients reply file failed", RecordDevices, {})
    /\ pc' = "adjust"
    /\ UNCHANGED <<fixed, lang_code, ai_question, dish, final_recipe_text, intro_text,
                   steps, step_index, current_step, command,
                   voice,
                   calls, failed, loopHist, batchData, callData, webData>>

\* Lines 446-462: the recipe-adjustment call.
AdjustRecipe ==
    /\ Running("main", "adjust")
    /\ Issue("adjust")
    /\ LET prompt == IF ingredients_reply_upload
                     THEN <<"prompt_3">> ELSE <<"fallback_prompt_3">>
       IN  \/ /\ last' = Printed(Ev("adjust", "caught",
                                    "[ERROR] Gemini final recipe generation failed", {}, {}),
                                 prompt)
              /\ failed' = failed \cup {"adjust"}
              /\ pc' = AfterFailure("adjust")
              /\ UNCHANGED final_recipe_text
           \/ /\ last' = Printed(Ev("adjust", "raised", "", {}, {}), prompt)
              /\ pc' = "raised"                             \* result_3.text.strip()
              /\ UNCHANGED <<final_recipe_text, failed>>
           \/ \E t \in RecipeTexts :
                /\ final_recipe_text' = Strip(t)
                /\ last' = Printed(Ev("adjust", "ok", "Gemini Response 3", {}, {}), prompt)
                /\ pc' = "speak_recipe"
                /\ UNCHANGED failed
    /\ UNCHANGED <<fixed, lang_code, ai_question, dish, intro_text, steps, step_index,
                   current_step, command, voice, loopHist, batchData, callData, webData>>

\* Line 465.
SpeakRecipe ==
    /\ Running("main", "speak_recipe")
    /\ speak(final_recipe_text, "split")
    /\ UNCHANGED <<fixed, mainData, calls, failed, loopHist, batchData, callData, webData>>


\* Line 500, "if not steps".
NoStepsNever(parsed) == FALSE

NoSteps(parsed) == parsed = <<>>

\* Line 502: where main goes when no step was parsed (return).
RePromptOnNoSteps == "adjust"

OnNoSteps == "done"

\* Lines 488-502: the step-splitting call and parse_steps.
SplitSteps ==
    /\ Running("main", "split")
    /\ Issue("split")
    /\ \/ /\ last' = Ev("split", "caught", "[ERROR] Gemini step conversion failed", {}, {})
          /\ failed' = failed \cup {"split"}
          /\ pc' = AfterFailure("split")
          /\ UNCHANGED steps
       \/ /\ last' = Ev("split", "raised", "", {}, {})     \* result_steps.text.strip()
          /\ pc' = "raised"
          /\ UNCHANGED <<steps, failed>>
       \/ \E t \in StepTexts :
            /\ steps' = parse_steps(Strip(t))
            /\ IF NoSteps(steps')
               THEN /\ last' = Ev("split", "ok", "Could not parse steps", {}, {})
                    /\ pc' = OnNoSteps
               ELSE /\ last' = Ev("split", "ok", "Gemini Step List", {}, {})
                    /\ pc' = "intro"
            /\ UNCHANGED failed
    /\ UNCHANGED <<fixed, lang_code, ai_question, dish, final_recipe_text, intro_text,
                   step_index, current_step, command, voice, loopHist, batchData, callData, webData>>

\* Lines 511-512: the intro call, made outside any try.
IntroCall ==
    /\ Running("main", "intro")
    /\ Issue("intro")
    /\ \/ /\ last' = Ev("intro", "raised", "", {}, {})
          /\ failed' = failed \cup {"intro"}
          /\ pc' = "raised"
          /\ UNCHANGED intro_text
       \/ /\ last' = Ev("intro", "raised", "", {}, {})     \* intro_result.text.strip()
          /\ pc' = "raised"
          /\ UNCHANGED <<intro_text, failed>>
       \/ \E t \in IntroTexts :
            /\ intro_text' = Strip(t)
            /\ last' = Ev("intro", "ok", "", {}, {})
            /\ pc' = "speak_intro"
            /\ UNCHANGED failed
    /\ UNCHANGED <<fixed, lang_code, ai_question, dish, final_recipe_text, steps,
                   step_index, current_step, command, voice, loopHist, batchData, callData, webData>>

\* Lines 513-518: speak the intro, then step_index = 0.
SpeakIntro ==
    /\ Running("main", "speak_intro")
    /\ speak(intro_text, "loop")
    /\ step_index' = 0
    /\ UNCHANGED <<fixed, lang_code, ai_question, dish, final_recipe_text, intro_text,
                   steps, current_step, command, calls, failed, loopHist, batchData, callData, webData>>

\* ------------------------------------------------------ the step loop
\* Line 519, the while condition.
LoopConditionInclusive == step_index <= Len(steps)

LoopCondition == step_index < Len(steps)

\* Lines 519 and 540: test the condition; leave the loop when it fails.
LoopTest ==
    /\ Running("main", "loop")
    /\ IF LoopCondition
       THEN /\ pc' = "body"
            /\ last' = NoEv
       ELSE /\ pc' = "done"
            /\ last' = Ev("none", "ok", "Cooking assistant finished", {}, {})
    /\ iter' = NewIter
    /\ UNCHANGED <<fixed, mainData, voice, calls, failed, spoken, repeats, batchData, callData, webData>>

\* steps[step_index]; Python raises IndexError outside 0..len-1 (negative
\* indices do not occur: step_index starts at 0 and only grows).
InRange(i, list) == 0 <= i /\ i < Len(list)

\* Lines 520-522: read the current step, print it and speak it.
SpeakStep ==
    /\ Running("main", "body")
    /\ IF InRange(step_index, steps)
       THEN /\ current_step' = steps[step_index + 1]
            /\ spoken' = [index |-> step_index, text |-> current_step']
            /\ iter' = [iter EXCEPT !.spoken = @ + 1]
            /\ speak(<<"Step", SP, "n", COLON, SP>> \o current_step', "ask")
       ELSE /\ pc' = "raised"
            /\ last' = Ev("none", "raised", "IndexError", {}, {})
            /\ UNCHANGED <<current_step, spoken, iter, voice>>
    /\ UNCHANGED <<fixed, lang_code, ai_question, dish, final_recipe_text, intro_text,
                   steps, step_index, command, calls, failed, repeats, batchData, callData, webData>>

\* Lines 277-282 with REPEAT and STOP tested in the other order.
StepCommandStopFirst(raw) ==
    IF Contains(raw, "STOP") THEN "STOP"
    ELSE IF Contains(raw, "REPEAT") THEN "REPEAT"
    ELSE "NEXT"

\* Lines 277-282: the command named by the upper-cased reply.
StepCommand(raw) ==
    IF Contains(raw, "REPEAT") THEN "REPEAT"
    ELSE IF Contains(raw, "STOP") THEN "STOP"
    ELSE "NEXT"

\* Lines 528-538 with REPEAT advancing like NEXT.
ApplyCommandRepeatAdvances(cmd) ==
    /\ command' = cmd
    /\ repeats' = IF cmd = "REPEAT" /\ repeats < MaxRepeats THEN repeats + 1 ELSE repeats
    /\ IF cmd = "STOP"
       THEN /\ pc' = "done"
            /\ UNCHANGED step_index
       ELSE /\ pc' = "loop"
            /\ step_index' = step_index + 1

\* Lines 526-538: main applies the command returned by get_user_step_command.
ApplyCommand(cmd) ==
    /\ command' = cmd
    /\ repeats' = IF cmd = "REPEAT" /\ repeats < MaxRepeats THEN repeats + 1 ELSE repeats
    /\ IF cmd = "NEXT"
       THEN /\ step_index' = step_index + 1
            /\ pc' = "loop"
       ELSE IF cmd = "REPEAT"
       THEN /\ UNCHANGED step_index
            /\ pc' = "loop"
       ELSE IF cmd = "STOP"
       THEN /\ UNCHANGED step_index
            /\ pc' = "done"
       ELSE /\ step_index' = step_index + 1
            /\ pc' = "loop"

\* Lines 234-247 and 525: get_user_step_command is entered, records
\* (interactive) and uploads the command file; a failed upload returns NEXT.
\* `outcomes` are the ways the upload can end.
UploadCommandEnding(outcomes) ==
    /\ Running("main", "ask")
    /\ iter' = [iter EXCEPT !.asked = @ + 1]
    /\ \/ /\ "ok" \in outcomes
          /\ last' = Ev("upload_cmd", "ok", "", RecordDevices, {})
          /\ pc' = "classify"
          /\ UNCHANGED <<command, step_index, repeats>>
       \/ /\ "caught" \in outcomes
          /\ last' = Ev("upload_cmd", "caught",
                        "[ERROR] Could not upload step command file", RecordDevices, {})
          /\ ApplyCommand("NEXT")
    /\ UNCHANGED <<fixed, lang_code, ai_question, dish, final_recipe_text, intro_text,
                   steps, current_step, voice, calls,
                   failed, spoken, batchData, callData, webData>>

UploadCommand == UploadCommandEnding({"ok", "caught"})

\* The command a reply of the classifier stands for (line 274, then 277-282).
Said(t) == StepCommand(Upper(Strip(t)))

\* Lines 268-282 and 526-538: the classifier call; result_cmd.text is read
\* outside the try.  `replies` are the texts the model can answer with and
\* `mayFail` tells whether the call or the read of .text can raise.
ClassifyCommandOn(replies, mayFail) ==
    /\ Running("main", "classify")
    /\ Issue("classify")
    /\ iter' = [iter EXCEPT !.classified = @ + 1]
    /\ \/ /\ mayFail
          /\ last' = Ev("classify", "caught", "[ERROR] Gemini step command failed", {}, {})
          /\ failed' = failed \cup {"classify"}
          /\ ApplyCommand("NEXT")
       \/ /\ mayFail
          /\ last' = Ev("classify", "raised", "", {}, {})  \* result_cmd.text.strip()
          /\ pc' = "raised"
          /\ UNCHANGED <<command, step_index, repeats, failed>>
       \/ \E t \in replies :
            LET command_raw == Upper(Strip(t))
            IN  /\ last' = Printed(Ev("classify", "ok", "Gemini Step Command Raw", {}, {}),
                                   command_raw)
                /\ ApplyCommand(StepCommand(command_raw))
                /\ UNCHANGED failed
    /\ UNCHANGED <<fixed, lang_code, ai_question, dish, final_recipe_text, intro_text,
                   steps, current_step, voice, spoken,
                   batchData, callData, webData>>

\* The user says REPEAT at most MaxRepeats times.
ClassifyCommand ==
    ClassifyCommandOn({t \in CommandTexts : Said(t) = "REPEAT" => repeats < MaxRepeats},
                      TRUE)

\* The stages of main before the step commands.
Stages ==
    \/ UploadIngredients
    \/ DetectLanguage
    \/ SpeakQuestion
    \/ UploadChoice
    \/ ChooseDish
    \/ GenerateImage
    \/ SpeakIngredients
    \/ UploadReply
    \/ AdjustRecipe
    \/ SpeakRecipe
    \/ SplitSteps
    \/ IntroCall
    \/ SpeakIntro
    \/ LoopTest
    \/ SpeakStep

Main ==
    \/ Stages
    \/ UploadCommand
    \/ ClassifyCommand

\* ------------------------------------- main with pre-supplied command files
\* BATCH_MODE with the files step_command_1.wav, ... provided by the caller
\* (lines 232-237): disk[i] tells what step_command_{i}.wav holds, "missing"
\* when it is not there, else the command its audio is classified as, the
\* same at every call.  A missing file makes the upload raise.
FilesInit ==
    /\ entry = "main"
    /\ BATCH_MODE = TRUE
    /\ wav_exists = TRUE
    /\ arg = <<>>
    /\ request = <<>>
    /\ response = <<>>
    /\ disk \in [1..MaxStepLines -> Commands \cup {"missing"}]
    /\ Locals0

\* Line 234: cmd_file, for the call of line 525 with step_index + 1.
cmd_file == disk[step_index + 1]

FileUploadCommand ==
    UploadCommandEnding(IF cmd_file = "missing" THEN {"caught"} ELSE {"ok"})

FileClassifyCommand ==
    ClassifyCommandOn({t \in CommandTexts : Said(t) = cmd_file}, FALSE)

FilesNext ==
    \/ Stages
    \/ FileUploadCommand
    \/ FileClassifyCommand

\* main is a sequential program: it takes its next step whenever it has one.
FilesSpec == FilesInit /\ [][FilesNext]_vars /\ WF_vars(FilesNext)


\* ------------------------------------------- process_ingredients_batch
\* The function is called on its own, or by the route run_recipe
\* (routes.py line 38) with the event loop of the web server running.
InBatch(p) ==
    \/ entry = "process_ingredients_batch" /\ pc = p
    \/ entry = "run_recipe" /\ pc = (IF p = "start" THEN "batch" ELSE p)

\* Line 562, os.path.exists(ingredients_wav_path).
WavExists ==
    IF entry = "run_recipe" THEN "ingredients.wav" \in DOMAIN disk ELSE wav_exists

\* Lines 559-571: the existence check and the upload.
BatchUpload ==
    /\ InBatch("start")
    /\ IF ~WavExists
       THEN /\ result' = [result EXCEPT !.error = "Ingredients file not found"]
            /\ last' = NoEv
            /\ pc' = "returned"
       ELSE \/ /\ last' = Ev("upload_ingredients", "ok", "", {}, {})
               /\ pc' = "generate"
               /\ UNCHANGED result
            \/ /\ last' = Ev("upload_ingredients", "caught", "", {}, {})
               /\ result' = [result EXCEPT !.error = "Upload ingredients file failed"]
               /\ pc' = "returned"
    /\ UNCHANGED <<fixed, mainData, voice, calls, failed, loopHist, wav_exists, callData,
                   webData>>

\* A single except clause that reports every exception alike.
BatchErrorGeneric(exc) == "Gemini generation failed"

\* Lines 585-590: the two except clauses around the model call; the first
\* that matches the exception's class sets the error.
BatchErrorFor(exc) ==
    IF exc = "ResourceExhausted" THEN "Gemini quota exhausted"
    ELSE "Gemini generation failed"

\* Lines 583-598 and 612-613: the model call, the two except clauses, the
\* tolerant read of .text (getattr with a default, then "or ''") and the
\* parse.  getattr's default covers a missing attribute only, so a .text
\* that raises another exception propagates.
BatchGenerate ==
    /\ InBatch("generate")
    /\ Issue("detect")
    /\ \/ \E exc \in Exceptions :
            /\ result' = [result EXCEPT !.error = BatchErrorFor(exc)]
            /\ last' = Raising(Ev("detect", "caught", "", {}, {}), exc)
            /\ failed' = failed \cup {"detect"}
            /\ pc' = "returned"
       \/ /\ last' = Ev("detect", "raised", "", {}, {})     \* .text raises
          /\ pc' = "raised"
          /\ UNCHANGED <<result, failed>>
       \/ \E r \in {NoneReply} \cup {Text(t) : t \in DetectTexts} :
            LET response_text == Strip(r.text)
                parsed == parse_lang_and_options(response_text)
            IN  /\ last' = Ev("detect", "ok", "", {}, {})
                /\ UNCHANGED failed
                /\ IF parsed[2] # <<>>
                   THEN /\ result' = [result EXCEPT !.response_text = response_text,
                                                    !.lang_code = parsed[1],
                                                    !.ai_question = parsed[2]]
                        /\ pc' = "tts"
                   ELSE /\ result' = [result EXCEPT !.response_text = response_text,
                                                    !.lang_code = parsed[1],
                                                    !.ai_question = parsed[2],
                                                    !.success = TRUE]
                        /\ pc' = "returned"
    /\ UNCHANGED <<fixed, mainData, voice, loopHist, wav_exists, callData, webData>>

\* A synthesis failure that fails the request.
BatchTtsFailsRequest ==
    /\ InBatch("tts")
    /\ voice' = VoiceFor(result.lang_code)
    /\ \/ /\ entry # "run_recipe"
          /\ result' = [result EXCEPT !.tts_files = Append(@, "tts_uuid.mp3"),
                                      !.success = TRUE]
          /\ last' = Ev("speak", "ok", "", {}, {"tts_uuid.mp3"})
          /\ disk' = disk @@ ("tts_uuid.mp3" :> <<"mp3">>)
       \/ /\ result' = [result EXCEPT !.error = "TTS failed"]
          /\ last' = Ev("speak", "caught", "", {}, {})
          /\ UNCHANGED disk
    /\ pc' = "returned"
    /\ UNCHANGED <<fixed, mainData, calls, failed, loopHist, wav_exists, callData,
                   request, response>>

\* Lines 601-613: synthesis of the question; a failure is recorded, not
\* raised.  asyncio.run (line 606) raises RuntimeError when an event loop is
\* already running in the thread, which the except of line 608 catches: under
\* the route the synthesis never succeeds.
BatchTts ==
    /\ InBatch("tts")
    /\ voice' = VoiceFor(result.lang_code)
    /\ \/ /\ entry # "run_recipe"
          /\ result' = [result EXCEPT !.tts_files = Append(@, "tts_uuid.mp3"),
                                      !.success = TRUE]
          /\ last' = Ev("speak", "ok", "", {}, {"tts_uuid.mp3"})
          /\ disk' = disk @@ ("tts_uuid.mp3" :> <<"mp3">>)
       \/ /\ result' = [result EXCEPT !.tts_error = TRUE, !.success = TRUE]
          /\ last' = Ev("speak", "caught", "", {}, {})
          /\ UNCHANGED disk
    /\ pc' = "returned"
    /\ UNCHANGED <<fixed, mainData, calls, failed, loopHist, wav_exists, callData,
                   request, response>>

Batch ==
    \/ BatchUpload
    \/ BatchGenerate
    \/ BatchTts

\* ------------------------------------------------- rohan.py main, stage 1
\* Replies to rohan.py's prompt_1, which asks for a JSON object.
RohanTexts ==
    { <<LB, DQ, "lang", DQ, COLON, SP, DQ, "hi", DQ, COMMA, SP, DQ, "question", DQ, COLON,
        SP, DQ, "Paneer", SP, "or", SP, "Dal?", DQ, RB>>,
      <<FENCE, "json", NL, LB, DQ, "lang", DQ, COLON, SP, DQ, "te", DQ, RB, NL, FENCE>>,
      <<LB, DQ, "a", DQ, COLON, SP, LB, DQ, "b", DQ, COLON, SP, DQ, "x", DQ, RB, RB>>,
      <<LB, RB>>,
      <<"sorry">>,
      <<LB, DQ, "lang", DQ, COLON, SP, DQ, "hi", DQ>> }

\* rohan.py lines 51-55: the voice table of rohan.speak has no "ml" entry.
ROHAN_VOICE_MAP == [c \in (DOMAIN VOICE_MAP) \ {<<"ml">>} |-> VOICE_MAP[c]]

\* A test that takes every decoded value for data.
NotDataNever(data) == FALSE

\* rohan.py line 110: `not data_1` holds of None and of the empty dict.
NotData(data) == data = None \/ data = Obj(<<>>)

\* dict.get(key, default) with the text of a str value.
Get(data, key, default) ==
    LET items == data[2]
        at == {i \in 1..Len(items) : items[i][1] = key}
    IN  IF at = {} THEN default ELSE (items[CHOOSE i \in at : TRUE][2])[2]

\* rohan.py lines 93-97: input(), the recording (its errors caught) and the
\* upload, which is in no try.
RohanUploadIngredients ==
    /\ Running("rohan_main", "start")
    /\ \/ /\ last' = Ev("upload_ingredients", "ok", "", {"input", "mic"}, {})
          /\ pc' = "detect"
       \/ /\ last' = Ev("upload_ingredients", "raised", "", {"input", "mic"}, {})
          /\ pc' = "raised"
    /\ UNCHANGED <<fixed, mainData, voice, calls, failed, loopHist, batchData, callData, webData>>

\* rohan.py lines 107-115: the model call and the read of .text, in no try;
\* extract_json (of None when the reply has no text); the return on no data.
RohanDetect ==
    /\ Running("rohan_main", "detect")
    /\ Issue("detect")
    /\ \/ \E exc \in Exceptions :
            /\ last' = Raising(Ev("detect", "raised", "", {}, {}), exc)
            /\ failed' = failed \cup {"detect"}
            /\ pc' = "raised"
            /\ UNCHANGED <<lang_code, ai_question>>
       \/ /\ last' = Ev("detect", "raised", "", {}, {})          \* result_1.text
          /\ pc' = "raised"
          /\ UNCHANGED <<lang_code, ai_question, failed>>
       \/ \E r \in {NoneReply} \cup {Text(t) : t \in RohanTexts} :
            LET data_1 == IF r.kind = "none" THEN None ELSE extract_json(r.text).value
            IN  /\ UNCHANGED failed
                /\ IF NotData(data_1)
                   THEN /\ last' = Printed(Ev("detect", "failed",
                                              "Error parsing Gemini response.", {}, {}),
                                           r.text)
                        /\ pc' = "done"
                        /\ UNCHANGED <<lang_code, ai_question>>
                   ELSE /\ last' = Printed(Ev("detect", "ok", "", {}, {}), r.text)
                        /\ lang_code' = Get(data_1, <<"lang">>, <<"en">>)
                        /\ ai_question' = Get(data_1, <<"question">>,
                                              <<"What would you like to make?">>)
                        /\ pc' = "speak_question"
    /\ UNCHANGED <<fixed, dish, final_recipe_text, intro_text, steps, step_index,
                   current_step, command, voice, loopHist, batchData, callData, webData>>

\* rohan.py lines 47-70 and 117: rohan.speak synthesises and plays inside one
\* try; the run then waits for the dish choice (line 121).
RohanSpeakQuestion ==
    /\ Running("rohan_main", "speak_question")
    /\ voice' = IF lang_code \in DOMAIN ROHAN_VOICE_MAP THEN ROHAN_VOICE_MAP[lang_code]
                ELSE DefaultVoice
    /\ \/ last' = Ev("speak", "ok", "AI Speaking", {"speaker"}, {})
       \/ last' = Ev("speak", "caught", "Audio Error", {"speaker"}, {"ai_resp.mp3"})
    /\ pc' = "upload_choice"
    /\ UNCHANGED <<fixed, mainData, calls, failed, loopHist, batchData, callData, webData>>

Rohan ==
    \/ RohanUploadIngredients
    \/ RohanDetect
    \/ RohanSpeakQuestion

\* ---------------------------------------------------------- specification
Next == Main \/ Batch \/ Rohan

Spec == Init /\ [][Next]_vars

\* The same runs, taken to their end: each function is a sequential program
\* that takes its next step whenever it has one.
FairSpec == Spec /\ WF_vars(Next)

\* ------------------------------------------- parsers called on their own
\* Lines handed to parse_lang_and_options.
LangLines ==
    { <<"LANG", COLON, SP, "hi">>,
      <<SP, "LANG", COLON, SP, SP, "TE", SP>>,
      <<"OPTIONS", COLON, SP, "Paneer", SP, "or", SP, "Dal?">>,
      <<"OPTIONS", COLON, "Choose", COLON, SP, "idli", SP, "or", SP, "dosa?", SP, SP>>,
      <<"Namaste!">>,
      <<>> }

\* Lines handed to parse_dish_block.
DishLines ==
    { <<"DISH", COLON, SP, "Dal">>,
      <<SP, "DISH", COLON, SP, SP, "Palak", SP, "paneer", SP>>,
      <<"INGREDIENTS", COLON, SP, "lentils">>,
      <<"QUESTION", COLON, SP, "Ready", COLON, SP, "yes?">>,
      <<"RECIPE", COLON, SP, "boil">>,
      <<"IMG", COLON, SP, "dal", SP, "bowl">>,
      <<"sorry">> }

\* Lines handed to parse_steps.
ParseStepLines ==
    { <<"STEP", SP, "1", COLON, SP, "Chop", SP, "onions">>,
      <<"STEP", SP, "2", COLON, SP, "Boil", SP, "water">>,
      <<SP, "step", SP, "3", COLON, SP, SP, "Add", SP, "salt", COLON, SP, "a", SP, "pinch", SP>>,
      <<"STEP", SP, "4", COLON>>,
      <<"Step", SP, "5", COLON, SP, "Mix", SP, DASH, SP, "well">>,
      <<>>,
      <<SP>>,
      <<"Enjoy!">>,
      <<"First", SP, "step", COLON, SP, "wait">>,
      <<"STEP", SP, "6", SP, DASH, SP, "Serve">>,
      <<"step", SP, "7", SP, "serve">> }

\* The complete dish block of DishTexts, and the same lines in reverse order.
FullDishBlocks ==
    { t \in DishTexts : Len(SplitLines(t)) > 1 } \cup
    { <<"IMG", COLON, SP, "dal", NL, "RECIPE", COLON, SP, "boil", NL,
        "QUESTION", COLON, SP, "all?", NL, "INGREDIENTS", COLON, SP, "lentils", NL,
        "DISH", COLON, SP, "Dal">> }

Parsers == {"parse_lang_and_options", "parse_dish_block", "parse_steps"}

JsonParsers ==
    {"extract_json", "detect_ingredients_from_images", "analyze", "generate_healthy_swap"}

\* The texts a parser is called with.
Arguments(f) ==
    CASE f = "parse_lang_and_options" ->
             {JoinLines(ls) : ls \in SeqsUpTo(LangLines, MaxLines)}
      [] f = "parse_dish_block" ->
             {JoinLines(ls) : ls \in SeqsUpTo(DishLines, MaxLines)} \cup FullDishBlocks
      [] f = "parse_steps" ->
             {JoinLines(ls) : ls \in SeqsUpTo(ParseStepLines, MaxLines)}
      [] f = "analyze" -> RawTexts \ {<<>>}       \* line 308: not raw_text raises before
      [] OTHER -> RawTexts

ParserInit ==
    /\ entry \in Parsers \cup JsonParsers
    /\ BATCH_MODE = FALSE
    /\ wav_exists = TRUE
    /\ arg \in Arguments(entry)
    /\ Offline
    /\ Locals0

\* One call of a parser: it runs to its return statement.
Return(value) ==
    /\ ret' = value
    /\ pc' = "returned"
    /\ UNCHANGED <<fixed, mainData, voice, last, calls, failed, loopHist, batchData, arg,
                   webData>>

CallParseLangAndOptions ==
    /\ Running("parse_lang_and_options", "start")
    /\ Return(parse_lang_and_options(arg))

CallParseDishBlock ==
    /\ Running("parse_dish_block", "start")
    /\ Return(parse_dish_block(arg))

CallParseSteps ==
    /\ Running("parse_steps", "start")
    /\ Return(parse_steps(arg))

\* One call of a JSON parsing step: it returns or raises.
Finish(ending) ==
    /\ ret' = ending
    /\ pc' = IF ending.outcome = "raise" THEN "raised" ELSE "returned"
    /\ UNCHANGED <<fixed, mainData, voice, last, calls, failed, loopHist, batchData, arg,
                   webData>>

CallExtractJson ==
    /\ Running("extract_json", "start")
    /\ Finish(extract_json(arg))

CallDetectIngredientsParse ==
    /\ Running("detect_ingredients_from_images", "start")
    /\ Finish(detect_ingredients_parse(arg))

CallAnalyzeParse ==
    /\ Running("analyze", "start")
    /\ Finish(analyze_parse(arg))

CallHealthySwapDecode ==
    /\ Running("generate_healthy_swap", "start")
    /\ Finish(healthy_swap_decode(arg))

ParserNext ==
    \/ CallParseLangAndOptions
    \/ CallParseDishBlock
    \/ CallParseSteps
    \/ CallExtractJson
    \/ CallDetectIngredientsParse
    \/ CallAnalyzeParse
    \/ CallHealthySwapDecode

ParserSpec == ParserInit /\ [][ParserNext]_vars

\* ------------------------------------------------ routes.py, run_recipe
\* The requests the server handles at a time.
Requests == {1, 2}

\* The audio of request r: n bytes, each known by its request and position.
Upload(r, n) == [i \in 1..n |-> <<r, i>>]

\* A file opened with "wb" by several handlers: each write lands at its own
\* handle's position 0 and leaves what lies beyond it in place.
Overlay(file, data) == data \o SubSeq(file, Len(data) + 1, Len(file))

\* routes.py lines 12-18: the samples ffmpeg decodes from the bytes.
Pcm(bytes) == [i \in 1..Len(bytes) |-> <<"pcm", bytes[i]>>]

\* What a handler answered: the status, the body and (for run_recipe) the
\* audio the body was computed from, which is no part of the body.
Answer(status, body, heard) == [status |-> status, body |-> body, heard |-> heard]

NoAnswer == Answer(0, <<>>, <<>>)

\* The handler that has passed its await and has not returned yet.
Handling == CHOOSE r \in Requests : request[r].at = "running"

\* routes.py line 27: open("ingredients.webm", "wb") creates or truncates the
\* file; line 28 then awaits the upload's bytes, and the loop may run another
\* handler meanwhile.  The event loop runs one handler at a time: pc is
\* "start" when none is between its await and its return.
RouteOpen(r) ==
    /\ Running("run_recipe", "start")
    /\ request[r].at = "new"
    /\ request' = [request EXCEPT ![r].at = "reading"]
    /\ disk' = [f \in DOMAIN disk \cup {"ingredients.webm"} |->
                   IF f = "ingredients.webm" THEN <<>> ELSE disk[f]]
    /\ UNCHANGED <<fixed, pc, mainData, voice, last, calls, failed, loopHist, batchData,
                   callData, response>>

\* routes.py line 28: the awaited bytes are written through the handler's
\* own file object and the file is closed; from here to its return the
\* handler has no await.
RouteWrite(r) ==
    /\ Running("run_recipe", "start")
    /\ request[r].at = "reading"
    /\ request' = [request EXCEPT ![r].at = "running"]
    /\ disk' = [disk EXCEPT !["ingredients.webm"] = Overlay(@, request[r].audio)]
    /\ pc' = "convert"
    /\ UNCHANGED <<fixed, mainData, voice, last, calls, failed, loopHist, batchData,
                   callData, response>>

\* routes.py lines 10-21 and 31: ffmpeg writes ingredients.wav, or fails and
\* the failure is printed.
RouteConvert ==
    /\ Running("run_recipe", "convert")
    /\ \/ /\ disk' = [f \in DOMAIN disk \cup {"ingredients.wav"} |->
                         IF f = "ingredients.wav" THEN Pcm(disk["ingredients.webm"])
                         ELSE disk[f]]
          /\ last' = Ev("convert", "ok", "Converted to WAV", {}, {})
       \/ /\ last' = Ev("convert", "caught", "FFmpeg error", {}, {})
          /\ UNCHANGED disk
    /\ pc' = "exists"
    /\ UNCHANGED <<fixed, mainData, voice, calls, failed, loopHist, batchData, callData,
                   request, response>>

\* routes.py line 35: the body returned when ingredients.wav is not there.
ConversionFailed ==
    [success |-> FALSE, error |-> "Conversion failed: ingredients.wav not found",
     stdout |-> <<>>, stderr |-> ""]

\* The handler returns: its answer is sent and its frame is gone.
Responds(answer) ==
    /\ response' = [response EXCEPT ![Handling] = answer]
    /\ request' = [request EXCEPT ![Handling].at = "done"]
    /\ pc' = "start"
    /\ result' = ResultInit
    /\ last' = NoEv

\* routes.py lines 34-38.
RouteExists ==
    /\ Running("run_recipe", "exists")
    /\ IF "ingredients.wav" \notin DOMAIN disk
       THEN Responds(Answer(200, ConversionFailed, <<>>))
       ELSE /\ pc' = "batch"
            /\ UNCHANGED <<request, response, result, last>>
    /\ UNCHANGED <<fixed, mainData, voice, calls, failed, loopHist, wav_exists, callData,
                   disk>>

\* routes.py lines 40-58: the body built from the result dict; dict.get's
\* default is used for a missing key only, so stderr is the error as it is;
\* a tts file that is on disk is sent base64-encoded.
RouteBody ==
    LET kept == SelectSeq(result.tts_files, LAMBDA fname : fname \in DOMAIN disk)
    IN  [success |-> result.success,
         stdout |-> result.response_text,
         stderr |-> result.error,
         tts |-> [i \in 1..Len(kept) |->
                     [filename |-> kept[i], base64 |-> <<"base64">> \o disk[kept[i]]]]]

RouteRespond ==
    /\ Running("run_recipe", "returned")
    /\ Responds(Answer(200, RouteBody, disk["ingredients.wav"]))
    /\ UNCHANGED <<fixed, mainData, voice, calls, failed, loopHist, wav_exists, callData,
                   disk>>

\* An exception that leaves process_ingredients_batch leaves run_recipe too:
\* the server answers 500 with a plain text and goes on serving.
RouteFails ==
    /\ Running("run_recipe", "raised")
    /\ Responds(Answer(500, "Internal Server Error", disk["ingredients.wav"]))
    /\ UNCHANGED <<fixed, mainData, voice, calls, failed, loopHist, wav_exists, callData,
                   disk>>

Route ==
    \/ \E r \in Requests : RouteOpen(r)
    \/ \E r \in Requests : RouteWrite(r)
    \/ RouteConvert
    \/ RouteExists
    \/ RouteRespond
    \/ RouteFails

\* Requests not yet handled, with uploads of 1..MaxUpload bytes; an
\* ingredients.wav may be left from a request handled before.
RouteInit ==
    /\ request \in {[r \in Requests |-> [audio |-> Upload(r, len[r]), at |-> "new"]] :
                       len \in [Requests -> 1..MaxUpload]}
    /\ disk \in {<<>>, [f \in {"ingredients.wav"} |-> Pcm(Upload(0, 1))]}
    /\ response = [r \in Requests |-> NoAnswer]

\* ------------------------------------------ image_detection.py, fridge_scan
\* image_detection.py lines 26-27.
MAX_IMAGES == 6
ALLOWED_EXTENSIONS == {<<"png">>, <<"jpg">>, <<"jpeg">>}

\* image_detection.py lines 36-37: the text after the last dot, lower-cased,
\* is an allowed extension.
allowed_file(filename) ==
    LET i == FindBack(filename, ".", Len(filename))
    IN  /\ i # 0
        /\ Lower(SubSeq(filename, i + 1, Len(filename))) \in ALLOWED_EXTENSIONS

\* Names of the files a client sends under the key 'images'.
FileNames ==
    { <<"a", ".", "jpg">>, <<"b", ".", "PNG">>, <<"c", ".", "txt">>,
      <<"d", ".", "jpg", ".", "exe">>, <<"noext">>, <<>> }

\* The form data of a request: at most MaxFiles files of any name, or exactly
\* MAX_IMAGES or one more with an allowed name.
ScanRequests ==
    SeqsUpTo(FileNames, MaxFiles)
    \cup {[i \in 1..n |-> <<"a", ".", "jpg">>] : n \in {MAX_IMAGES, MAX_IMAGES + 1}}

\* Lines 190 and 197-202: the files saved so far, each under a name of its
\* own (a fresh uuid), in the order of the request.
saved_paths == [i \in 1..Cardinality(DOMAIN disk) |-> <<"fridge_uploads", i>>]

\* jsonify(...), status: the handler returns.
ScanResponds(status, body) ==
    /\ response' = Answer(status, body, <<>>)
    /\ pc' = "returned"

Error(text) == [error |-> text]

\* Lines 180-188: the checks on the request as a whole.  The key 'images' is
\* in request.files exactly when a file was sent under it, so the test of
\* line 184 never holds after that of line 180.
ScanRequest ==
    /\ Running("fridge_scan", "start")
    /\ IF request = <<>>
       THEN ScanResponds(400, Error("No images part in form-data"))
       ELSE IF Len(request) > MAX_IMAGES
       THEN ScanResponds(400, Error("Too many images"))
       ELSE /\ pc' = "file"
            /\ UNCHANGED response
    /\ last' = NoEv
    /\ UNCHANGED <<fixed, mainData, voice, calls, failed, loopHist, batchData, callData,
                   request, disk>>

\* Lines 191-202: one turn of the loop over the files: the two checks on the
\* file, then file.save; an error of save is caught at line 210.
ScanFile ==
    /\ Running("fridge_scan", "file")
    /\ LET i == Len(saved_paths) + 1
       IN  IF i > Len(request)
           THEN /\ pc' = "upload"
                /\ last' = NoEv
                /\ UNCHANGED <<disk, response>>
           ELSE IF request[i] = <<>>
           THEN /\ ScanResponds(400, Error("One of the uploaded files has an empty filename"))
                /\ last' = NoEv
                /\ UNCHANGED disk
           ELSE IF ~allowed_file(request[i])
           THEN /\ ScanResponds(400, Error("File type not allowed"))
                /\ last' = NoEv
                /\ UNCHANGED disk
           ELSE \/ /\ disk' = disk @@ (<<"fridge_uploads", i>> :> request[i])
                   /\ last' = Ev("save", "ok", "", {}, {})
                   /\ UNCHANGED <<pc, response>>
                \/ /\ ScanResponds(500, Error("save failed"))
                   /\ last' = Ev("save", "caught", "Server error at /fridge_scan", {}, {})
                   /\ UNCHANGED disk
    /\ UNCHANGED <<fixed, mainData, voice, calls, failed, loopHist, batchData, callData,
                   request>>

\* Lines 102-112 and 210-213: the saved files are uploaded; a failure is
\* raised again as RuntimeError and answered with 500.
ScanUpload ==
    /\ Running("fridge_scan", "upload")
    /\ \/ /\ last' = Ev("upload_images", "ok", "", {}, {})
          /\ pc' = "generate"
          /\ UNCHANGED response
       \/ /\ last' = Ev("upload_images", "caught", "Error uploading files to Gemini", {}, {})
          /\ ScanResponds(500, Error("Failed to upload files to Gemini"))
    /\ UNCHANGED <<fixed, mainData, voice, calls, failed, loopHist, batchData, callData,
                   request, disk>>

\* Lines 118-171 and 205-213: the model call and the parse of its reply; a
\* reply with no text (raw_text None or empty) and every RuntimeError are
\* answered with 500.
ScanGenerate ==
    /\ Running("fridge_scan", "generate")
    /\ Issue("detect")
    /\ \/ /\ last' = Ev("detect", "caught", "Error calling Gemini generate_content", {}, {})
          /\ failed' = failed \cup {"detect"}
          /\ ScanResponds(500, Error("Gemini model call failed"))
       \/ \E raw_text \in RawTexts :
            LET parsed == detect_ingredients_parse(raw_text)
            IN  /\ UNCHANGED failed
                /\ IF parsed.outcome = "raise"
                   THEN /\ last' = Printed(Ev("detect", "caught",
                                              "Server error at /fridge_scan", {}, {}),
                                           raw_text)
                        /\ ScanResponds(500, Error(parsed.value))
                   ELSE /\ last' = Printed(Ev("detect", "ok", "", {}, {}), raw_text)
                        /\ ScanResponds(200, [success |-> TRUE, result |-> parsed.value])
    /\ UNCHANGED <<fixed, mainData, voice, loopHist, batchData, callData, request, disk>>

Scan ==
    \/ ScanRequest
    \/ ScanFile
    \/ ScanUpload
    \/ ScanGenerate

ScanInit ==
    /\ request \in ScanRequests
    /\ disk = <<>>
    /\ response = NoAnswer

\* ------------------------------------------------- the web handlers
WebInit ==
    /\ entry \in {"run_recipe", "fridge_scan", "process_ingredients_batch"}
    /\ BATCH_MODE = FALSE
    /\ wav_exists \in (IF entry = "process_ingredients_batch" THEN BOOLEAN ELSE {TRUE})
    /\ arg = <<>>
    /\ CASE entry = "run_recipe" -> RouteInit
         [] entry = "fridge_scan" -> ScanInit
         [] OTHER -> Offline
    /\ Locals0

WebNext == Route \/ Batch \/ Scan

WebSpec == WebInit /\ [][WebNext]_vars

\* A parser has returned.
Returned(f) == entry = f /\ pc = "returned"

\* The lines of the text a parser was given.
ArgLines == SplitLines(arg)

\* A JSON parsing step has ended, by a return or by an exception.
Ended(f) == entry = f /\ pc \in {"returned", "raised"}

\* The run is over: main returned, or an exception left the function.
Terminated == pc \in {"done", "raised", "returned"}


\* Positions inside the while loop of main (lines 519-538).
LoopPcs == {"loop", "body", "ask", "classify"}

\* A step in which get_user_step_command returned and main applied its command.
CommandApplied == pc \in {"ask", "classify"} /\ pc' \in {"loop", "done"}

\* ------------------------------------------------------------------ C1
\* C1: whenever the loop body reads steps[step_index] the index is within
\* 0 .. len(steps)-1 (no IndexError); a REPEAT leaves step_index unchanged and
\* stays in the loop, a NEXT adds exactly 1, a STOP leaves the loop with
\* step_index unchanged.
C1_IndexInRangeAndCommands ==
    [][ /\ (pc' = "body" => (0 <= step_index' /\ step_index' < Len(steps')))
        /\ (pc = "body" /\ pc' # "body" =>
              /\ last'.msg # "IndexError"
              /\ current_step' = steps[step_index + 1])
        /\ (CommandApplied =>
              /\ command' \in Commands
              /\ (command' = "REPEAT" => step_index' = step_index /\ pc' = "loop")
              /\ (command' = "NEXT" => step_index' = step_index + 1)
              /\ (command' = "STOP" => step_index' = step_index /\ pc' = "done"))
      ]_vars

\* A second step is being read after one REPEAT and one NEXT.
C1_Witness ==
    /\ pc = "ask"
    /\ step_index = 1
    /\ repeats >= 1
    /\ command = "NEXT"
    /\ current_step = steps[2]

\* ------------------------------------------------------------------ C2
\* C2: a REPEAT leaves step_index where it was, and the iteration after a
\* REPEAT reads and speaks the same step (same index, same text) as the
\* iteration before it; by induction this holds for N REPEATs in a row.
C2_RepeatIdempotent ==
    [][ /\ (CommandApplied /\ command' = "REPEAT" => step_index' = step_index)
        /\ (command = "REPEAT" /\ pc \in {"loop", "body"} =>
              /\ step_index' = step_index
              /\ pc' # "done")
        /\ (command = "REPEAT" /\ pc = "body" /\ pc' # "body" =>
              /\ spoken' = spoken
              /\ current_step' = current_step
              /\ iter'.spoken = 1)
      ]_vars

\* MaxRepeats REPEATs in a row at the first step, which is spoken once more.
C2_Witness ==
    /\ pc = "ask"
    /\ step_index = 0
    /\ repeats = MaxRepeats
    /\ command = "REPEAT"
    /\ spoken = [index |-> 0, text |-> steps[1]]

\* ------------------------------------------------------------------ C3
\* C3: the loop is left only after a STOP for the current step or with
\* step_index = len(steps); the current step is spoken before its command is
\* obtained; steps are spoken in list order, none skipped.
C3_LoopExitAndOrder ==
    [][ /\ (pc \in LoopPcs /\ pc' \notin LoopPcs =>
              \/ command' = "STOP" /\ CommandApplied
              \/ step_index' = Len(steps'))
        /\ (pc' \in {"ask", "classify"} =>
              spoken'.index = step_index' /\ iter'.spoken = 1)
        /\ (spoken'.index # spoken.index => spoken'.index = spoken.index + 1)
      ]_vars

\* ------------------------------------------------------------------ C4
\* C4: once parse_steps has returned an empty list, main is done: it printed
\* the explanation, raised nothing, made no intro call, spoke no step and
\* never called get_user_step_command.
C4_NoStepsEndsRun ==
    ( /\ entry = "main"
      /\ calls["split"] > 0
      /\ "split" \notin failed
      /\ ~(last.call = "split" /\ last.outcome = "raised")
      /\ steps = <<>> )
    => /\ pc = "done"
       /\ last.msg = "Could not parse steps"
       /\ calls["intro"] = 0
       /\ calls["classify"] = 0
       /\ spoken.index = -1
       /\ iter = NewIter

\* The step-list reply held no STEP line and main has returned.
C4_Witness ==
    /\ pc = "done"
    /\ last.call = "split"
    /\ last.msg = "Could not parse steps"
    /\ steps = <<>>


\* ------------------------------------------------------------------ C5
\* C5: get_user_step_command never raises and returns one of NEXT, REPEAT,
\* STOP; it returns NEXT when the upload fails, when the model call fails and
\* when the reply cannot be read.
C5_CommandTotal ==
    (entry = "main" /\ last.call \in {"upload_cmd", "classify"})
    => /\ last.outcome # "raised"
       /\ pc # "raised"
       /\ (pc # "classify" => command \in Commands)
       /\ (last.outcome = "caught" => command = "NEXT")

\* ------------------------------------------------------------------ C6
\* Words of the upper-cased reply, written out: the tokens that hold REPEAT
\* and the tokens that hold STOP.
SaysRepeat(raw) == \E i \in 1..Len(raw) : raw[i] \in {"REPEAT", "REPEATING"}
SaysStop(raw) == \E i \in 1..Len(raw) : raw[i] \in {"STOP", "NONSTOP"}
SaysNext(raw) == \E i \in 1..Len(raw) : raw[i] = "NEXT"

NamesSeveral(raw) ==
    \/ SaysRepeat(raw) /\ SaysStop(raw)
    \/ SaysRepeat(raw) /\ SaysNext(raw)
    \/ SaysStop(raw) /\ SaysNext(raw)

Classified == entry = "main" /\ last.call = "classify" /\ last.outcome = "ok"

SynthCode == IF entry = "main" THEN lang_code ELSE result.lang_code

\* C7: the voice used by a synthesis call is the table entry of its language
\* code when the code is a key, and en-IN-NeerjaNeural for every other code,
\* the empty string included; the lookup never fails.
C7_VoiceSelection ==
    (voice # "none" /\ entry \in {"main", "process_ingredients_batch"}) =>
        /\ voice # "KeyError"
        /\ (SynthCode = <<"hi">> => voice = "hi-IN-SwaraNeural")
        /\ (SynthCode = <<"te">> => voice = "te-IN-MohanNeural")
        /\ (SynthCode = <<"ta">> => voice = "ta-IN-PallaviNeural")
        /\ (SynthCode = <<"kn">> => voice = "kn-IN-GaganNeural")
        /\ (SynthCode = <<"bn">> => voice = "bn-IN-TanishaaNeural")
        /\ (SynthCode = <<"ml">> => voice = "ml-IN-SobhanaNeural")
        /\ (SynthCode = <<"en">> => voice = "en-IN-NeerjaNeural")
        /\ (SynthCode \notin {<<"hi">>, <<"te">>, <<"ta">>, <<"kn">>, <<"bn">>,
                              <<"ml">>, <<"en">>}
              => voice = "en-IN-NeerjaNeural")

\* speak ran with the unknown code "xx" and chose the default voice.
C7_Witness ==
    /\ entry = "main"
    /\ lang_code = <<"xx">>
    /\ last.call = "speak"
    /\ last.outcome = "ok"
    /\ voice = "en-IN-NeerjaNeural"

\* ------------------------------------------------------------------ C8
\* The stage of the conversation driver at each position of main.
StageOrder ==
    <<"AWAIT_INGREDIENTS", "LANG_DETECTED", "DISH_CHOSEN", "RECIPE_DRAFTED",
      "AVAILABILITY_CHECKED", "STEP_MODE", "DONE">>

Stage(p) ==
    CASE p \in {"start", "detect"} -> "AWAIT_INGREDIENTS"
      [] p \in {"speak_question", "upload_choice", "choose"} -> "LANG_DETECTED"
      [] p \in {"image"} -> "DISH_CHOSEN"
      [] p \in {"speak_ingredients", "upload_reply", "adjust"} -> "RECIPE_DRAFTED"
      [] p \in {"speak_recipe", "split", "intro", "speak_intro"} -> "AVAILABILITY_CHECKED"
      [] p \in LoopPcs -> "STEP_MODE"
      [] OTHER -> "DONE"

Rank(stage) == CHOOSE i \in 1..Len(StageOrder) : StageOrder[i] = stage

\* C8: a run of main starts in AWAIT_INGREDIENTS and each step keeps the
\* stage, enters the next stage of the fixed order, or ends the run (DONE):
\* no stage is skipped on the way forward and none is entered again.
C8_StageOrder ==
    [][ entry = "main" =>
          /\ (pc = "start" => Stage(pc) = "AWAIT_INGREDIENTS")
          /\ \/ Stage(pc') = Stage(pc)
             \/ Rank(Stage(pc')) = Rank(Stage(pc)) + 1
             \/ Stage(pc') = "DONE"
          /\ (Stage(pc) = "DONE" => Stage(pc') = "DONE")
      ]_vars

\* A run that went through every stage and ended after the last step.
C8_Witness ==
    /\ entry = "main"
    /\ pc = "done"
    /\ last.msg = "Cooking assistant finished"
    /\ spoken.index = Len(steps) - 1
    /\ step_index = Len(steps)

\* ------------------------------------------------------------------ C9
\* C9: whenever an external call of main fails, the failure is caught in the
\* driver, an error message is printed and the run ends; no exception leaves
\* main.
C9_FailuresCaughtAndTerminate ==
    entry = "main" =>
        /\ pc # "raised"
        /\ (last.outcome \in {"caught", "failed", "raised"} =>
              /\ pc = "done"
              /\ last.msg # "")

\* ----------------------------------------------------------------- C10
DriverCalls == {"detect", "choose", "adjust", "split"}

NoRetryOfDriverCalls ==
    \A k \in DriverCalls :
        /\ calls[k] <= 1
        /\ (k \in failed => Terminated)

\* The latest loop iteration has obtained its command.
IterationDone == entry = "main" /\ iter.asked > 0 /\ pc \in {"loop", "done"}

\* C10 as claimed: the four driver calls are issued at most once, a failed one
\* never again, and every loop iteration makes exactly one classifier call.
C10_ExactlyOneClassifierCall ==
    /\ NoRetryOfDriverCalls
    /\ (IterationDone => iter.classified = 1)

\* C10 as amended: the four driver calls are issued at most once, a failed one
\* never again; a loop iteration calls get_user_step_command at most once and
\* makes at most one classifier call: one when the command file was uploaded,
\* none when the upload failed.
C10_AtMostOneClassifierCall ==
    /\ NoRetryOfDriverCalls
    /\ iter.asked <= 1
    /\ iter.classified <= iter.asked
    /\ (IterationDone =>
          /\ iter.asked = 1
          /\ (last.call = "upload_cmd" => last.outcome = "caught" /\ iter.classified = 0)
          /\ (last.call = "classify" => iter.classified = 1))

\* An iteration whose classifier call failed was followed by one more call,
\* for the next step, while every driver call was issued once.
C10_Witness ==
    /\ IterationDone
    /\ iter.classified = 1
    /\ "classify" \in failed
    /\ calls["classify"] = 2
    /\ \A k \in DriverCalls : calls[k] = 1


\* ------------------------------------------------------------------ C11
\* The latest step was a model call that raised.
ModelFailed == last.call \in ModelCalls /\ last.outcome \in {"caught", "raised"}

\* C11: a quota-exhaustion failure of the language-detection call is reported
\* with a message of its own.  process_ingredients_batch returns success=False
\* with error 'Gemini quota exhausted' for ResourceExhausted and 'Gemini
\* generation failed' for any other exception; main prints its quota message
\* for ResourceExhausted and returns, and prints that message for no other
\* failed model call.
C11_QuotaReportedDistinctly ==
    /\ (entry = "process_ingredients_batch" /\ ModelFailed /\ last.outcome = "caught" =>
          /\ pc = "returned"
          /\ result.success = FALSE
          /\ (last.exc = "ResourceExhausted" <=> result.error = "Gemini quota exhausted")
          /\ (last.exc # "ResourceExhausted" <=> result.error = "Gemini generation failed"))
    /\ (entry = "main" /\ ModelFailed =>
          /\ (last.call = "detect" /\ last.exc = "ResourceExhausted" =>
                last.msg = QuotaMessage /\ pc = "done")
          /\ (last.msg = QuotaMessage =>
                last.call = "detect" /\ last.exc = "ResourceExhausted"))

\* process_ingredients_batch has returned after a quota-exhausted model call.
C11_Witness ==
    /\ entry = "process_ingredients_batch"
    /\ pc = "returned"
    /\ last.call = "detect"
    /\ last.exc = "ResourceExhausted"
    /\ result.error = "Gemini quota exhausted"


\* ------------------------------------------------------------------ C19
\* The text main passes to speak at the positions where it can be empty.
SpeakArgument ==
    CASE pc = "speak_question" -> ai_question
      [] pc = "speak_recipe" -> final_recipe_text
      [] pc = "speak_intro" -> intro_text

SpeakPcs == {"speak_question", "speak_recipe", "speak_intro"}

\* C19: speak called with the empty text is a no-op in both modes: no voice
\* is selected and no synthesis is made, no file is left, no TTS_FILE marker
\* or other line is printed, no device is touched, and speak returns to its
\* caller.
C19_SpeakEmptyIsNoOp ==
    [][ (entry = "main" /\ pc \in SpeakPcs /\ SpeakArgument = <<>>) =>
          /\ last'.call = "speak"
          /\ last'.outcome = "skipped"
          /\ last'.msg = ""
          /\ last'.dev = {}
          /\ last'.left = {}
          /\ voice' = voice
          /\ pc' \notin {"raised", "done"}
      ]_vars

\* speak has returned from an empty question, in interactive mode.
C19_Witness ==
    /\ entry = "main"
    /\ ~BATCH_MODE
    /\ pc = "upload_choice"
    /\ ai_question = <<>>
    /\ last.call = "speak"
    /\ last.outcome = "skipped"


\* ------------------------------------------------------------------ C20
\* C20: with BATCH_MODE set, no step of main touches a device or waits on
\* the user: no microphone, no input(), no playback, no image viewer; a
\* speech that succeeds leaves a tts file announced by a TTS_FILE marker and
\* the interactive 'AI Speaking' line is never printed.
C20_BatchModeTouchesNoDevice ==
    (entry = "main" /\ BATCH_MODE) =>
        /\ last.dev = {}
        /\ last.msg \notin {"AI Speaking", "Audio Playback Error",
                            "[Pollinations] Could not auto-open image"}
        /\ (last.call = "speak" /\ last.outcome = "ok" =>
              last.msg = "TTS_FILE" /\ last.left = {"tts_uuid.mp3"})

\* A batch-mode run has spoken the first step, after recording-free uploads
\* and an image that was saved but not opened.
C20_Witness ==
    /\ entry = "main"
    /\ BATCH_MODE
    /\ pc = "ask"
    /\ last.call = "speak"
    /\ last.msg = "TTS_FILE"


\* ------------------------------------------------------------------ C18
\* The lines of ParseStepLines of the form 'STEP n: text', each with its text
\* written out by hand.
StepFormText ==
    (<<"STEP", SP, "1", COLON, SP, "Chop", SP, "onions">> :> <<"Chop", SP, "onions">>) @@
    (<<"STEP", SP, "2", COLON, SP, "Boil", SP, "water">> :> <<"Boil", SP, "water">>) @@
    (<<SP, "step", SP, "3", COLON, SP, SP, "Add", SP, "salt", COLON, SP, "a", SP, "pinch", SP>>
        :> <<"Add", SP, "salt", COLON, SP, "a", SP, "pinch">>) @@
    (<<"STEP", SP, "4", COLON>> :> <<>>) @@
    (<<"Step", SP, "5", COLON, SP, "Mix", SP, DASH, SP, "well">> :> <<"Mix", SP, DASH, SP, "well">>)

\* The blank lines and the lines that do not start with 'step'.
NoStepLines == { <<>>, <<SP>>, <<"Enjoy!">>, <<"First", SP, "step", COLON, SP, "wait">> }

RECURSIVE ExpectedSteps(_)
ExpectedSteps(lines) ==
    IF lines = <<>> THEN <<>>
    ELSE (IF Head(lines) \in DOMAIN StepFormText THEN <<StepFormText[Head(lines)]>> ELSE <<>>)
         \o ExpectedSteps(Tail(lines))

\* C18: for a text whose lines are 'STEP n: text' lines, blank lines and lines
\* not starting with 'step', parse_steps returns the trimmed texts of the
\* 'STEP n: text' lines in the order of the lines, one entry per such line and
\* none for the other lines; 'STEP 1: Chop onions\nSTEP 2: Boil water' yields
\* ['Chop onions', 'Boil water'].
C18_ParseStepsListsTexts ==
    Returned("parse_steps") =>
        /\ ((\A i \in 1..Len(ArgLines) :
                ArgLines[i] \in (DOMAIN StepFormText) \cup NoStepLines)
              => ret = ExpectedSteps(ArgLines))
        /\ (arg = <<"STEP", SP, "1", COLON, SP, "Chop", SP, "onions", NL,
                    "STEP", SP, "2", COLON, SP, "Boil", SP, "water">>
              => ret = << <<"Chop", SP, "onions">>, <<"Boil", SP, "water">> >>)

\* parse_steps has returned two steps from three lines, the middle one not a step.
C18_Witness ==
    /\ Returned("parse_steps")
    /\ arg = <<"STEP", SP, "1", COLON, SP, "Chop", SP, "onions", NL, "Enjoy!", NL,
               SP, "step", SP, "3", COLON, SP, SP, "Add", SP, "salt", COLON, SP, "a", SP,
               "pinch", SP>>
    /\ Len(ret) = 2


\* ------------------------------------------------------------------ C16
\* The 'LANG: c' lines of LangLines with c trimmed and lower-cased, and the
\* 'OPTIONS: q' lines with q trimmed, written out by hand.
LangFormCode ==
    (<<"LANG", COLON, SP, "hi">> :> <<"hi">>) @@
    (<<SP, "LANG", COLON, SP, SP, "TE", SP>> :> <<"te">>)

OptionsFormQuestion ==
    (<<"OPTIONS", COLON, SP, "Paneer", SP, "or", SP, "Dal?">>
        :> <<"Paneer", SP, "or", SP, "Dal?">>) @@
    (<<"OPTIONS", COLON, "Choose", COLON, SP, "idli", SP, "or", SP, "dosa?", SP, SP>>
        :> <<"Choose", COLON, SP, "idli", SP, "or", SP, "dosa?">>)

\* The positions of the lines of a text that belong to a set of lines.
LinesIn(lines, S) == {i \in 1..Len(lines) : lines[i] \in S}

\* C16: for a text with one 'LANG: c' line and one 'OPTIONS: q' line, in
\* either order and among any unlabelled lines, parse_lang_and_options
\* returns (c trimmed and lower-cased, q trimmed); 'LANG: hi\nOPTIONS: Paneer
\* or Dal?' yields ('hi', 'Paneer or Dal?').
C16_LangAndOptionsLines ==
    Returned("parse_lang_and_options") =>
        /\ \A i, j \in 1..Len(ArgLines) :
              ( /\ LinesIn(ArgLines, DOMAIN LangFormCode) = {i}
                /\ LinesIn(ArgLines, DOMAIN OptionsFormQuestion) = {j} )
              => ret = <<LangFormCode[ArgLines[i]], OptionsFormQuestion[ArgLines[j]]>>
        /\ (arg = <<"LANG", COLON, SP, "hi", NL, "OPTIONS", COLON, SP, "Paneer", SP, "or",
                    SP, "Dal?">>
              => ret = << <<"hi">>, <<"Paneer", SP, "or", SP, "Dal?">> >>)

\* parse_lang_and_options has returned from an OPTIONS line followed by an
\* unlabelled line and an upper-case LANG line with spaces around its code.
C16_Witness ==
    /\ Returned("parse_lang_and_options")
    /\ arg = <<"OPTIONS", COLON, "Choose", COLON, SP, "idli", SP, "or", SP, "dosa?", SP, SP,
               NL, "Namaste!", NL, SP, "LANG", COLON, SP, SP, "TE", SP>>
    /\ ret[1] = <<"te">>


\* ------------------------------------------------------------------ C15
\* The labelled lines handed to parse_dish_block, each with the field its
\* label names and the trimmed text after its first colon, written out by hand.
DishLineField ==
    (<<"DISH", COLON, SP, "Dal">> :> <<"dish_name", <<"Dal">> >>) @@
    (<<SP, "DISH", COLON, SP, SP, "Palak", SP, "paneer", SP>>
        :> <<"dish_name", <<"Palak", SP, "paneer">> >>) @@
    (<<"INGREDIENTS", COLON, SP, "lentils">> :> <<"ingredients_text", <<"lentils">> >>) @@
    (<<"QUESTION", COLON, SP, "Ready", COLON, SP, "yes?">>
        :> <<"question_text", <<"Ready", COLON, SP, "yes?">> >>) @@
    (<<"QUESTION", COLON, SP, "all?">> :> <<"question_text", <<"all?">> >>) @@
    (<<"RECIPE", COLON, SP, "boil">> :> <<"base_recipe_text", <<"boil">> >>) @@
    (<<"IMG", COLON, SP, "dal", SP, "bowl">> :> <<"image_prompt", <<"dal", SP, "bowl">> >>) @@
    (<<"IMG", COLON, SP, "dal">> :> <<"image_prompt", <<"dal">> >>)

DishFields ==
    {"dish_name", "ingredients_text", "question_text", "base_recipe_text", "image_prompt"}

\* The positions of the lines that carry the label of field f.
LinesOf(lines, f) ==
    {i \in 1..Len(lines) : lines[i] \in DOMAIN DishLineField /\ DishLineField[lines[i]][1] = f}

Largest(S) == CHOOSE i \in S : \A j \in S : j <= i

\* C15 as stated: for a text made of LABEL: value lines, parse_dish_block
\* returns every present label with the trimmed text after the first colon of
\* a line of that label, and every absent label as the empty string.
C15_AbsentLabelsEmpty ==
    (Returned("parse_dish_block") /\ \A i \in 1..Len(ArgLines) : ArgLines[i] \in DOMAIN DishLineField)
    => \A f \in DishFields :
          IF LinesOf(ArgLines, f) = {}
          THEN ret[f] = <<>>
          ELSE \E i \in LinesOf(ArgLines, f) : ret[f] = DishLineField[ArgLines[i]][2]

\* C15, amended: for a text of LABEL: value lines and unlabelled lines,
\* parse_dish_block returns every present label with the trimmed text after
\* the first colon of the last line of that label, and every absent label at
\* its default: the empty string for DISH, INGREDIENTS, QUESTION and RECIPE,
\* 'Indian food' for IMG.
C15_AbsentLabelsDefault ==
    Returned("parse_dish_block")
    => \A f \in DishFields :
          IF LinesOf(ArgLines, f) = {}
          THEN ret[f] = (IF f = "image_prompt" THEN <<"Indian", SP, "food">> ELSE <<>>)
          ELSE ret[f] = DishLineField[ArgLines[Largest(LinesOf(ArgLines, f))]][2]

\* parse_dish_block has returned from a DISH line and a QUESTION line only.
C15_Witness ==
    /\ Returned("parse_dish_block")
    /\ arg = <<SP, "DISH", COLON, SP, SP, "Palak", SP, "paneer", SP, NL,
               "QUESTION", COLON, SP, "Ready", COLON, SP, "yes?">>
    /\ ret.dish_name = <<"Palak", SP, "paneer">>
    /\ ret.image_prompt = <<"Indian", SP, "food">>


\* ------------------------------------------------------------------ C17
\* The rearrangements of n lines.
Perms(n) == {p \in [1..n -> 1..n] : \A i, j \in 1..n : p[i] = p[j] => i = j}

Permuted(lines, p) == [i \in 1..Len(lines) |-> lines[p[i]]]

\* The texts made of the lines of the argument in another order.
Rearranged == {JoinLines(Permuted(ArgLines, p)) : p \in Perms(Len(ArgLines))}

LangLabelled == (DOMAIN LangFormCode) \cup (DOMAIN OptionsFormQuestion)

\* With no label line, the parsers return their defaults.
NoLabelDefaults ==
    /\ (Returned("parse_lang_and_options") /\ LinesIn(ArgLines, LangLabelled) = {}
          => ret = << <<"en">>, arg >>)
    /\ (Returned("parse_dish_block") /\ LinesIn(ArgLines, DOMAIN DishLineField) = {}
          => ret = [dish_name |-> <<>>, ingredients_text |-> <<>>, question_text |-> <<>>,
                    base_recipe_text |-> <<>>, image_prompt |-> <<"Indian", SP, "food">>])

\* C17 as stated: both parsers return the same result for every rearrangement
\* of the lines of their input, and their defaults for an input with no label
\* line.
C17_AnyOrderOfLines ==
    /\ (Returned("parse_lang_and_options")
          => \A t \in Rearranged : parse_lang_and_options(t) = ret)
    /\ (Returned("parse_dish_block")
          => \A t \in Rearranged : parse_dish_block(t) = ret)
    /\ NoLabelDefaults

\* C17, amended: when no label stands on more than one line the result of
\* parse_dish_block is the same for every rearrangement of the lines, and so
\* is the result of parse_lang_and_options when the text also has an OPTIONS
\* line (without one the question is the whole text, lines in their order);
\* for an input with no label line they return 'en' with the whole text, and
\* the dish defaults.
C17_AnyOrderOfDistinctLabels ==
    /\ (( /\ Returned("parse_lang_and_options")
           /\ Cardinality(LinesIn(ArgLines, DOMAIN LangFormCode)) <= 1
           /\ Cardinality(LinesIn(ArgLines, DOMAIN OptionsFormQuestion)) = 1 )
          => \A t \in Rearranged : parse_lang_and_options(t) = ret)
    /\ (( /\ Returned("parse_dish_block")
           /\ \A f \in DishFields : Cardinality(LinesOf(ArgLines, f)) <= 1 )
          => \A t \in Rearranged : parse_dish_block(t) = ret)
    /\ NoLabelDefaults

\* parse_dish_block has returned all five fields from the block whose lines
\* run from IMG back to DISH.
C17_Witness ==
    /\ Returned("parse_dish_block")
    /\ ArgLines[1] = <<"IMG", COLON, SP, "dal">>
    /\ Len(ArgLines) = 5
    /\ ret.dish_name = <<"Dal">>
    /\ ret.image_prompt = <<"dal">>


\* ------------------------------------------------------------------ C12
Drivers == {"main", "rohan_main"}

\* The detection call raised.
DetectionCallFailed ==
    entry \in Drivers /\ last.call = "detect" /\ last.outcome \in {"caught", "raised"}

\* The reply of DetectTexts that has neither a LANG: nor an OPTIONS: label,
\* and the replies of RohanTexts that hold no decodable JSON object.
UnlabelledReplies == { <<"Paneer", SP, "or", SP, "Dal?">> }
NoJsonReplies == { <<"sorry">>, <<LB, DQ, "lang", DQ, COLON, SP, DQ, "hi", DQ>> }

\* The detection call returned a reply without labels (main), or without
\* decodable JSON (rohan.main).
DetectionUnparsable ==
    /\ last.call = "detect"
    /\ last.outcome \in {"ok", "failed"}
    /\ \/ entry = "main" /\ last.raw \in UnlabelledReplies
       \/ entry = "rohan_main" /\ last.raw \in NoJsonReplies

\* C12 as stated: when the detection call fails, or its reply has no labels
\* (no decodable JSON in the JSON variant), the driver ends there: no
\* question is spoken and the dish-choice stage is not reached.
C12_UnparsableDetectionEndsRun ==
    (DetectionCallFailed \/ DetectionUnparsable) => Terminated

\* C12, amended: when the detection call raises, the run ends with no
\* question spoken (main prints its quota message and returns on
\* ResourceExhausted; every other exception, and every exception in
\* rohan.main, leaves the function); when the reply of rohan.main holds no
\* decodable JSON object the run ends with 'Error parsing Gemini response.';
\* a reply without labels does not end main: the language is 'en', the whole
\* reply is the question, and main goes on to speak it.
C12_DetectionFailureOrDefaults ==
    /\ (DetectionCallFailed =>
          /\ Terminated
          /\ (entry = "main" /\ last.exc = "ResourceExhausted" =>
                pc = "done" /\ last.msg = QuotaMessage))
    /\ (entry = "rohan_main" /\ DetectionUnparsable =>
          pc = "done" /\ last.msg = "Error parsing Gemini response.")
    /\ (entry = "main" /\ DetectionUnparsable =>
          /\ pc = "speak_question"
          /\ lang_code = <<"en">>
          /\ ai_question = last.raw)
    /\ (entry \in Drivers /\ last.call = "speak" => "detect" \notin failed)

\* main has spoken the reply that had no labels and waits for the dish choice.
C12_Witness ==
    /\ entry = "main"
    /\ pc = "upload_choice"
    /\ last.call = "speak"
    /\ last.outcome = "ok"
    /\ lang_code = <<"en">>
    /\ ai_question = <<"Paneer", SP, "or", SP, "Dal?">>

\* ------------------------------------------------------------------ C13
\* The replies wrapped around a valid JSON object, and around a text that is
\* no JSON.
AroundJson == UNION {Wrappings(body) : body \in JsonObjects}
AroundNoJson == UNION {Wrappings(body) : body \in NonJsonTexts}

IsStructure(v) == v[1] \in {"dict", "str"}

\* C13 as stated: whatever the raw text, each of the four parsing steps
\* returns and none raises.
C13_ParsersNeverRaise ==
    \A f \in JsonParsers : Ended(f) => ret.outcome = "return"

\* C13, amended: extract_json, the parse stage of analyze and the decode of
\* generate_healthy_swap return for every raw text: a structure, or else
\* None, the text-parsed dict, the 'Sorry, could not parse model output.'
\* dict respectively.  The extraction in detect_ingredients_from_images
\* returns the structure of a text that holds a JSON object and raises
\* RuntimeError for a text that holds none, the empty text included.
C13_ParsersTotalButImageDetection ==
    /\ (Ended("extract_json") =>
          /\ ret.outcome = "return"
          /\ (arg \in AroundJson => IsStructure(ret.value))
          /\ (arg \in AroundNoJson => ret.value = None))
    /\ (Ended("analyze") =>
          /\ ret.outcome = "return"
          /\ IsStructure(ret.value)
          /\ (arg \in AroundNoJson => ret.value[2][1][1] = <<"extracted_values">>))
    /\ (Ended("generate_healthy_swap") =>
          /\ ret.outcome = "return"
          /\ IsStructure(ret.value)
          /\ (arg \in AroundNoJson =>
                ret.value[2][1] = << <<"why_unhealthy">>,
                                     Str(<<"Sorry, could not parse model output.">>) >>))
    /\ (Ended("detect_ingredients_from_images") =>
          /\ (arg \in AroundJson => ret.outcome = "return" /\ IsStructure(ret.value))
          /\ (arg \in AroundNoJson => ret = Raises("RuntimeError")))

\* The extraction of detect_ingredients_from_images has raised on 'sorry'.
C13_Witness ==
    /\ Ended("detect_ingredients_from_images")
    /\ arg = <<"sorry">>
    /\ pc = "raised"

\* ------------------------------------------------------------------ C14
\* The valid JSON objects of JsonObjects with the structure json.loads gives
\* for each, written out by hand.
DirectlyDecoded ==
    (<<LB, DQ, "lang", DQ, COLON, SP, DQ, "hi", DQ, COMMA, SP, DQ, "question", DQ, COLON,
       SP, DQ, "Paneer", SP, "or", SP, "Dal?", DQ, RB>>
        :> Obj(<< << <<"lang">>, Str(<<"hi">>) >>,
                  << <<"question">>, Str(<<"Paneer", SP, "or", SP, "Dal?">>) >> >>)) @@
    (<<LB, RB>> :> Obj(<<>>)) @@
    (<<LB, DQ, "a", DQ, COLON, SP, LB, DQ, "b", DQ, COLON, SP, DQ, "x", DQ, RB, RB>>
        :> Obj(<< << <<"a">>, Obj(<< << <<"b">>, Str(<<"x">>) >> >>) >> >>)) @@
    (<<LB, DQ, "note", DQ, COLON, SP, DQ, "use", SP, FENCE, SP, "fences", DQ, RB>>
        :> Obj(<< << <<"note">>, Str(<<"use", SP, FENCE, SP, "fences">>) >> >>)) @@
    (<<LB, DQ, "q", DQ, COLON, SP, DQ, RB, LB, DQ, RB>>
        :> Obj(<< << <<"q">>, Str(<<RB, LB>>) >> >>)) @@
    (<<LB, DQ, "a", DQ, COLON, DQ, "x", DQ, COMMA, DQ, "a", DQ, COLON, DQ, "y", DQ, RB>>
        :> Obj(<< << <<"a">>, Str(<<"y">>) >> >>))

\* A JSON object alone, or inside a pair of fences with or without "json".
FenceWrapped(body) ==
    { body,
      <<FENCE, "json", NL>> \o body \o <<NL, FENCE>>,
      <<FENCE, NL>> \o body \o <<NL, FENCE, NL>> }

\* C14: for a raw text that is a valid JSON object, alone or inside fences,
\* extract_json and the decoding of analyze (_clean_json_response, then
\* json.loads) return exactly the structure that decoding the object
\* directly gives.
C14_FencedJsonDecodesAlike ==
    \A body \in DOMAIN DirectlyDecoded :
        (Ended(entry) /\ entry \in {"extract_json", "analyze"} /\ arg \in FenceWrapped(body))
        => ret = Returns(DirectlyDecoded[body])

\* ------------------------------------------------------------- claim C21
\* C21: in interactive mode, every call of speak with non-empty text that
\* returns has played the audio to completion (the playback block ran to its
\* end) and has deleted ai_response.mp3.
SpeakReturned ==
    /\ entry = "main"
    /\ ~BATCH_MODE
    /\ last.call = "speak"
    /\ last.outcome \in {"ok", "caught"}
    /\ pc # "raised"

C21_SpeakPlaysAndDeletes ==
    SpeakReturned =>
        /\ last.outcome = "ok"
        /\ "speaker" \in last.dev
        /\ "ai_response.mp3" \notin last.left

\* ------------------------------------------------------------- claim C22
\* C22: generate_image never propagates an exception; on a non-200 status or
\* a network error it logs and returns with no image file written; the driver
\* goes on to the next stage; a viewer that cannot be opened leaves the image
\* step's outcome (saved file, next stage) as it is.
ImageDone == entry = "main" /\ last.call = "image"

C22_ImageFailureWritesNoFile ==
    ImageDone =>
        /\ pc = "speak_ingredients"
        /\ last.outcome # "raised"
        /\ last.msg # ""
        /\ last.outcome \in {"caught", "failed"} => last.left = {}
        /\ last.outcome = "ok" => last.left = {"final_dish.jpg"}

\* ------------------------------------------------------------- claim C24
\* C24: process_ingredients_batch never raises; a missing input file, an
\* upload failure, a model failure and a quota failure each return a result
\* with success = False and an error; in every returned result success holds
\* exactly when error is None; with the input file missing no upload and no
\* model call is made.
BatchFailure ==
    \/ ~wav_exists
    \/ last.call = "upload_ingredients" /\ last.outcome = "caught"
    \/ last.call = "detect" /\ last.outcome = "caught"

C24_BatchNeverRaises ==
    entry = "process_ingredients_batch" =>
        /\ pc # "raised"
        /\ pc = "returned" => (result.success <=> result.error = "None")
        /\ (pc = "returned" /\ BatchFailure) =>
               (~result.success /\ result.error \notin {"None", ""})
        /\ ~wav_exists => (calls["detect"] = 0 /\ last = NoEv)

\* ------------------------------------------------------------- claim C25
\* C25: in main a failed upload of the dish-choice audio or of the
\* availability audio does not end the run: the next step is the stage's
\* model call, made once, with the fallback prompt (first dish option; all
\* ingredients assumed available) in place of the audio; a failed upload of
\* the initial ingredients audio ends the run with no model call.
UploadFailed(call) == last.call = call /\ last.outcome = "caught"

PromptAfter(call, withAudio, fallback) ==
    IF UploadFailed(call) THEN <<fallback>> ELSE <<withAudio>>

C25_UploadFallbacks ==
    [][entry = "main" =>
          /\ (pc = "start" /\ last'.outcome = "caught")
                 => (pc' = "done" /\ calls' = calls /\ \A k \in ModelCalls : calls[k] = 0)
          /\ pc = "upload_choice" => (pc' = "choose" /\ calls' = calls)
          /\ pc = "upload_reply" => (pc' = "adjust" /\ calls' = calls)
          /\ pc = "choose"
                 => /\ calls["choose"] = 0 /\ calls'["choose"] = 1
                    /\ last'.call = "choose"
                    /\ last'.raw = PromptAfter("upload_choice", "prompt_2", "fallback_prompt")
          /\ pc = "adjust"
                 => /\ calls["adjust"] = 0 /\ calls'["adjust"] = 1
                    /\ last'.call = "adjust"
                    /\ last'.raw = PromptAfter("upload_reply", "prompt_3", "fallback_prompt_3")
          /\ pc \notin {"choose", "adjust"}
                 => (calls'["choose"] = calls["choose"] /\ calls'["adjust"] = calls["adjust"])
      ]_vars

\* A recipe was adjusted from the fallback prompt, after a dish had been
\* chosen in an earlier stage.
C25_Witness ==
    /\ entry = "main"
    /\ last.call = "adjust"
    /\ last.outcome = "ok"
    /\ last.raw = <<"fallback_prompt_3">>
    /\ calls["choose"] = 1
    /\ pc = "speak_recipe"

\* ------------------------------------------------------------- claim C23
\* C23: every response of POST /run-recipe-generator, on success and on
\* every failure path, is a JSON object with exactly the keys success (a
\* boolean), stdout (text), stderr (text) and tts (a list of entries with a
\* filename and a base64 text).
Answered(r) == entry = "run_recipe" /\ request[r].at = "done"

IsPayload(a) ==
    /\ a.status = 200
    /\ DOMAIN a.body = {"success", "stdout", "stderr", "tts"}
    /\ a.body.success \in BOOLEAN
    /\ a.body.stderr # "None"
    /\ \A i \in DOMAIN a.body.tts : DOMAIN a.body.tts[i] = {"filename", "base64"}

C23_ResponseIsPayload ==
    \A r \in Requests : Answered(r) => IsPayload(response[r])

\* ------------------------------------------------------------- claim C28
\* C28: with two requests to run_recipe handled by interleaved executions,
\* the ingredients.webm a handler works on and the audio its response was
\* computed from hold no byte of the other request's upload.
HoldsByteOf(bytes, q) == \E i \in DOMAIN bytes : bytes[i][1] = q

HoldsSampleOf(samples, q) == \E i \in DOMAIN samples : samples[i][2][1] = q

C28_NoByteOfTheOtherRequest ==
    entry = "run_recipe" =>
        \A r \in Requests : \A q \in Requests \ {r} :
            /\ request[r].at = "running"
                   => ~HoldsByteOf(disk["ingredients.webm"], q)
            /\ request[r].at = "done"
                   => ~HoldsSampleOf(response[r].heard, q)

\* ------------------------------------------------------------- claim C30
\* C30: in process_ingredients_batch a synthesis failure does not fail the
\* request (success True, error None, no tts file, tts_error recorded); a
\* result holds at most one tts file, and one only with success and a
\* non-empty question; run_recipe returns a tts entry only for a file that
\* is on disk.
TtsFailed == pc = "returned" /\ last.call = "speak" /\ last.outcome = "caught"

C30_TtsFailureKeepsSuccess ==
    entry \in {"process_ingredients_batch", "run_recipe"} =>
        /\ TtsFailed => /\ result.success
                        /\ result.error = "None"
                        /\ result.tts_files = <<>>
                        /\ result.tts_error
        /\ Len(result.tts_files) <= 1
        /\ Len(result.tts_files) = 1 => (result.success /\ result.ai_question # <<>>)
        /\ entry = "run_recipe" =>
               \A r \in Requests :
                   (response[r].status = 200 /\ "tts" \in DOMAIN response[r].body)
                   => \A i \in DOMAIN response[r].body.tts :
                          response[r].body.tts[i].filename \in DOMAIN disk

\* run_recipe has answered a request whose question could not be synthesised:
\* success with the model's text and no tts entry.
C30_Witness ==
    /\ entry = "run_recipe"
    /\ \E r \in Requests :
          /\ response[r].status = 200
          /\ "tts" \in DOMAIN response[r].body
          /\ response[r].body.success
          /\ response[r].body.stdout # <<>>
          /\ response[r].body.tts = <<>>

\* ------------------------------------------------------------- claim C29
\* C29: when fridge_scan answers 400, no file of the request has been saved
\* and no model call has been made; the handler never propagates an
\* exception: it answers 200 with success = True and a result, or 400 or 500
\* with an error.
ScanAnswered == entry = "fridge_scan" /\ pc = "returned"

C29_RejectionLeavesNothing ==
    entry = "fridge_scan" =>
        /\ pc # "raised"
        /\ ScanAnswered =>
             \/ /\ response.status = 200
                /\ DOMAIN response.body = {"success", "result"}
                /\ response.body.success
             \/ /\ response.status \in {400, 500}
                /\ DOMAIN response.body = {"error"}
        /\ (ScanAnswered /\ response.status = 400)
               => (DOMAIN disk = {} /\ calls["detect"] = 0)

\* ------------------------------------------------------------- claim C26
\* C26: in BATCH_MODE the step loop of main always terminates, whatever
\* commands the pre-supplied step_command_{i}.wav files hold (each file
\* yielding the same command at every classification, a missing file NEXT).
C26_BatchLoopTerminates ==
    (entry = "main" /\ BATCH_MODE /\ pc = "body") ~> (pc \in {"done", "raised"})

\* ------------------------------------------------------------- claim C27
\* C27: in interactive mode, with finitely many REPEAT commands, the step
\* loop eventually ends and main reaches its final message; as many steps
\* are spoken as commands are obtained; step_index moves on by one, and only
\* on a NEXT.
Interactive == entry = "main" /\ ~BATCH_MODE

C27_LoopEndsAtFinalMessage ==
    /\ (Interactive /\ pc = "body") ~> (pc = "done")
    /\ []((Interactive /\ pc \in {"loop", "done"}) => iter.spoken = iter.asked)
    /\ [][(Interactive /\ step_index' # step_index)
              => (step_index' = step_index + 1 /\ command' = "NEXT")]_vars

====
